---- MODULE Spec2Model ----
(***************************************************************************)
(* Selector binding and matching (arcana/data/input.py) and composite      *)
(* class composition (arcana/analysis/multi.py, arcana/study/multi.py).    *)
(*                                                                         *)
(* Python values are encoded as follows.  An optional value is a sequence: *)
(* None is <<>> and a present value x is <<x>>.  A name is a sequence of   *)
(* one-character strings, so that concatenation and prefix tests are       *)
(* computed.  Exceptions are carried as the exception class name in an     *)
(* "exc" field, "" meaning normal return.                                  *)
(***************************************************************************)
EXTENDS Integers, Sequences, FiniteSets, TLC

VARIABLES heap, ret, trees, specs, classes, made, lookup, study

vars == <<heap, ret, trees, specs, classes, made, lookup, study>>

\* ---------------------------------------------------------------- bounds
MaxBases == 2
MaxObjs == 3
MaxNodes == 2
MaxOrder == 1
MaxClasses == 2
MaxSubs == 2

\* ------------------------------------------------------- Python encoding
None == <<>>
Some(x) == <<x>>
Val(o) == o[1]

IsPrefix(p, s) == Len(p) <= Len(s) /\ SubSeq(s, 1, Len(p)) = p

\* re.match(pattern, s) for a pattern without metacharacters: the pattern
\* has to match at the start of s.
ReMatch(pattern, s) == IsPrefix(pattern, s)

\* Python sequence indexing s[k]: a negative k counts from the end.
PyInRange(s, k) == k < Len(s) /\ k >= 0 - Len(s)
PyIndex(s, k) == IF k >= 0 THEN s[k + 1] ELSE s[Len(s) + k + 1]

\* ------------------------------------------------------ exception classes
UsageError == "ArcanaUsageError"
InputError == "ArcanaInputError"
MissingMatchError == "ArcanaInputMissingMatchError"
NotBoundError == "ArcanaNotBoundToAnalysisError"
AttributeError == "AttributeError"

\* `except ArcanaInputError`: the missing-match error is a kind of input error
IsInputError(e) == e \in {InputError, MissingMatchError}

\* --------------------------------------------------------------- the tree
Analyses == {"A1", "A2"}
Datasets == {"D1", "D2", "D3"}
AnalysisDataset(a) == IF a = "A1" THEN "D1" ELSE "D2"

\* an item as the tree provider yields it, before it is placed at a node
Proto(basename, id, quality, format, from_analysis, dicom) ==
  [basename |-> basename, id |-> id, quality |-> quality, format |-> format,
   from_analysis |-> from_analysis, dicom |-> dicom]

NameA == <<"a">>
NameAB == <<"a", "b">>
NameB == <<"b">>

ItemA1 == Proto(NameA, "1", Some("good"), Some("F1"), None, "t1")
ItemA2 == Proto(NameA, "2", None, Some("F1"), None, "t2")
ItemAF2 == Proto(NameA, "1", Some("good"), Some("F2"), None, "t1")
ItemAX == Proto(NameA, "2", Some("good"), Some("F1"), Some("x"), "t1")
ItemAB == Proto(NameAB, "3", Some("bad"), Some("F1"), None, "t1")
ItemB == Proto(NameB, "4", Some("good"), Some("F1"), None, "t1")

ProtoLists ==
  { <<>>, <<ItemA1>>, <<ItemA1, ItemA2>>, <<ItemAF2>>, <<ItemAX, ItemA1>>,
    <<ItemAB, ItemA1>>, <<ItemB>> }
RestLists == { <<>>, <<ItemA1>>, <<ItemA2, ItemA1>> }

\* Fileset / Field objects held by a node
Item(p, kind, ds, sid, vid) ==
  [kind |-> kind, src |-> "tree", name |-> p.basename, basename |-> p.basename,
   id |-> p.id, quality |-> p.quality, format |-> p.format,
   from_analysis |-> p.from_analysis, dicom |-> p.dicom, dataset |-> ds,
   frequency |-> "", subject_id |-> sid, visit_id |-> vid, exists |-> TRUE]

Node(ds, sid, vid, protos) ==
  [subject_id |-> sid, visit_id |-> vid,
   filesets |-> [i \in 1..Len(protos) |-> Item(protos[i], "fileset", ds, sid, vid)],
   fields |-> [i \in 1..Len(protos) |-> Item(protos[i], "field", ds, sid, vid)]]

\* A tree of nS subjects and nV visits with a session for every pair; the
\* first node of every frequency holds `first`, the others hold `rest`.
Content(k, first, rest) == IF k = 1 THEN first ELSE rest

MkTree(ds, nS, nV, first, rest) ==
  [subject_id |-> None, visit_id |-> None,
   filesets |-> Node(ds, None, None, first).filesets,
   fields |-> Node(ds, None, None, first).fields,
   subjects |->
     [s \in 1..nS |->
        [node |-> Node(ds, Some(s), None, Content(s, first, rest)),
         sessions |->
           [v \in 1..nV |->
              Node(ds, Some(s), Some(v),
                   Content((s - 1) * nV + v, first, rest))]]],
   visits |-> [v \in 1..nV |-> Node(ds, None, Some(v), Content(v, first, rest))]]

Shapes == {<<0, 0>>} \cup {sh \in (1..MaxNodes) \X (1..MaxNodes) : sh[1] * sh[2] <= MaxNodes}

TreesOf(ds, firsts, rests) ==
  {MkTree(ds, sh[1], sh[2], f, r) : sh \in Shapes, f \in firsts, r \in rests}

\* the tree node proper (a subject carries its sessions beside it)
TreeRootNode(tree) ==
  [subject_id |-> tree.subject_id, visit_id |-> tree.visit_id,
   filesets |-> tree.filesets, fields |-> tree.fields]

RECURSIVE Chain(_)
\* itertools.chain(*seqs)
Chain(seqs) == IF seqs = <<>> THEN <<>> ELSE Head(seqs) \o Chain(Tail(seqs))

\* ----------------------------------------------------- selector objects
Frequencies == {"per_session", "per_subject", "per_visit", "per_dataset"}

\* str(id) for the ids the scanner hands out
Str(n) == CASE n = 1 -> "1" [] n = 2 -> "2" [] n = 3 -> "3" [] OTHER -> "4"

NoItem ==
  [kind |-> "", src |-> "", name |-> <<>>, basename |-> <<>>, id |-> "",
   quality |-> None, format |-> None, from_analysis |-> None, dicom |-> "",
   dataset |-> "", frequency |-> "", subject_id |-> None, visit_id |-> None,
   exists |-> FALSE]

\* attributes assigned by the base-class constructor and by
\* BaseInputMixin.__init__ up to the mutual-exclusion check
AttrsAtFlagCheck(cls) ==
  (IF cls = "FilesetFilter" THEN {"_name", "_format", "_frequency"}
   ELSE {"_name", "_dtype", "_frequency"})
  \cup {"_pattern", "_is_regex", "_order", "_from_analysis", "_dataset",
        "_skip_missing", "_drop_if_missing", "_fallback_to_default"}

\* attributes __repr__ reads (through properties where the class has them)
ReprAttrs(cls) ==
  IF cls = "FilesetFilter"
  THEN {"_name", "_format", "_frequency", "_pattern", "_is_regex", "_order",
        "_id", "_dicom_tags", "_from_analysis", "_acceptable_quality"}
  ELSE {"_name", "_dtype", "_frequency", "_pattern", "_is_regex", "_order",
        "_from_analysis"}

\* "...".format(self) on an object holding the attributes `assigned`
FormatSelf(cls, assigned) ==
  IF ReprAttrs(cls) \subseteq assigned THEN "" ELSE AttributeError

\* raising the usage error whose message formats self
RaiseUsageNaming(formatting) ==
  IF formatting # "" THEN formatting ELSE UsageError

\* BaseInputMixin.__init__: the exception it leaves with, "" if none
MixinInit(args) ==
  IF args.skip_missing /\ args.fallback_to_default
  THEN RaiseUsageNaming(FormatSelf(args.cls, AttrsAtFlagCheck(args.cls)))
  ELSE ""

NewObject(args) ==
  [cls |-> args.cls, name |-> args.spec_name, pattern |-> args.pattern,
   is_regex |-> args.is_regex, order |-> args.order,
   from_analysis |-> args.from_analysis, dataset |-> args.dataset,
   skip_missing |-> args.skip_missing,
   drop_if_missing |-> args.drop_if_missing,
   fallback_to_default |-> args.fallback_to_default,
   derivable |-> FALSE, fallback |-> None, analysis |-> None, slice |-> None,
   frequency |-> args.frequency,
   id |-> IF args.cls = "FilesetFilter" /\ args.id # None
          THEN Some(Str(Val(args.id))) ELSE None,
   dicom_tags |-> IF args.cls = "FilesetFilter" THEN args.dicom_tags ELSE None,
   valid_formats |-> IF args.cls = "FilesetFilter" THEN args.valid_formats ELSE None,
   acceptable_quality |->
     IF args.cls = "FilesetFilter" THEN args.acceptable_quality ELSE None]

\* FilesetFilter.__init__ / FieldFilter.__init__: [exc, obj]
InitAfterMixin(args, mixinExc) ==
  [exc |-> IF mixinExc # "" THEN mixinExc
           ELSE IF args.cls = "FilesetFilter" /\ args.order # None /\ args.id # None
           THEN UsageError ELSE "",
   obj |-> NewObject(args)]

NewSelector(args) == InitAfterMixin(args, MixinInit(args))

\* ------------------------------------------------------------- matching
\* FilesetSlice.format of a stored slice: the format its items share
SliceFormat(slice) ==
  IF slice.items = <<>> THEN None ELSE slice.items[1].format

\* FilesetFilter.format
SelfFormat(self) ==
  IF self.slice = None THEN None ELSE SliceFormat(Val(self.slice))

\* FileFormat.matches(item)
FormatMatches(f, item) == item.format = Some(f)

\* FileFormat.dicom_values(fileset, keys)
DicomValues(item) == item.dicom

Raise(e) == [exc |-> e, matches |-> <<>>]
Return(m) == [exc |-> "", matches |-> m]

\* FilesetFilter._filtered_matches, stage by stage; every stage that
\* leaves nothing raises
ByName(self, all) ==
  SelectSeq(all, LAMBDA f :
    self.pattern # None =>
      IF self.is_regex THEN ReMatch(Val(self.pattern), f.basename)
      ELSE f.basename = Val(self.pattern))

ByQuality(self, matches) ==
  SelectSeq(matches, LAMBDA f :
    self.acceptable_quality # None => f.quality \in Val(self.acceptable_quality))

ById(self, matches) ==
  SelectSeq(matches, LAMBDA d : self.id # None => d.id = Val(self.id))

ByFormat(valid_formats, matches) ==
  SelectSeq(matches, LAMBDA m :
    valid_formats # None =>
      \E i \in 1..Len(Val(valid_formats)) : FormatMatches(Val(valid_formats)[i], m))

ByTags(self, matches) ==
  SelectSeq(matches, LAMBDA fileset : DicomValues(fileset) = Val(self.dicom_tags))

TagStage(self, filtered) ==
  IF Len(filtered) = 0 THEN Raise(MissingMatchError) ELSE Return(filtered)

FormatStage(self, matches, format_matches) ==
  IF Len(format_matches) = 0
  THEN \* the loop calls self.format.matches(f) on every match
       IF SelfFormat(self) = None THEN Raise(AttributeError)
       ELSE Raise(MissingMatchError)
  ELSE IF self.dicom_tags # None
  THEN IF self.valid_formats = None \/ Len(Val(self.valid_formats)) # 1
       THEN Raise(UsageError)
       ELSE TagStage(self, ByTags(self, format_matches))
  ELSE Return(format_matches)

IdStage(self, valid_formats, filtered) ==
  IF Len(filtered) = 0 THEN Raise(MissingMatchError)
  ELSE FormatStage(self, filtered, ByFormat(valid_formats, filtered))

QualityStage(self, valid_formats, filtered) ==
  IF Len(filtered) = 0 THEN Raise(MissingMatchError)
  ELSE IdStage(self, valid_formats, ById(self, filtered))

NameStage(self, valid_formats, matches) ==
  IF Len(matches) = 0 THEN Raise(MissingMatchError)
  ELSE QualityStage(self, valid_formats, ByQuality(self, matches))

FilesetFilteredMatches(self, node, valid_formats) ==
  NameStage(self, valid_formats, ByName(self, node.filesets))

\* FieldFilter._filtered_matches
FieldByName(self, all) ==
  SelectSeq(all, LAMBDA f :
    /\ IF self.is_regex THEN ReMatch(Val(self.pattern), f.name)
       ELSE f.name = Val(self.pattern)
    /\ self.from_analysis # None => f.from_analysis = self.from_analysis)

FieldStage(matches) ==
  IF Len(matches) = 0 THEN Raise(MissingMatchError) ELSE Return(matches)

FieldFilteredMatches(self, node) == FieldStage(FieldByName(self, node.fields))

FilteredMatches(self, node, valid_formats) ==
  IF self.cls = "FilesetFilter"
  THEN FilesetFilteredMatches(self, node, valid_formats)
  ELSE FieldFilteredMatches(self, node)

\* variant: only the first surviving item is looked at
AnalysisMatchesHead(self, matches) ==
  IF matches # <<>> /\ matches[1].from_analysis = self.from_analysis
  THEN <<matches[1]>> ELSE <<>>

\* the candidates match_node selects among
AnalysisMatches(self, matches) ==
  SelectSeq(matches, LAMBDA d : d.from_analysis = self.from_analysis)

\* variant: several candidates without an order give the first of them
SelectMatchFirst(self, analysis_matches) ==
  IF Len(analysis_matches) = 0
  THEN [exc |-> MissingMatchError, item |-> NoItem]
  ELSE IF self.order # None /\ ~PyInRange(analysis_matches, Val(self.order))
  THEN [exc |-> MissingMatchError, item |-> NoItem]
  ELSE IF self.order # None
  THEN [exc |-> "", item |-> PyIndex(analysis_matches, Val(self.order))]
  ELSE [exc |-> "", item |-> analysis_matches[1]]

\* the selection of match_node among analysis_matches: [exc, item]
SelectMatch(self, analysis_matches) ==
  IF Len(analysis_matches) = 0
  THEN [exc |-> MissingMatchError, item |-> NoItem]
  ELSE IF self.order # None
  THEN IF PyInRange(analysis_matches, Val(self.order))
       THEN [exc |-> "", item |-> PyIndex(analysis_matches, Val(self.order))]
       ELSE [exc |-> MissingMatchError, item |-> NoItem]
  ELSE IF Len(analysis_matches) = 1
  THEN [exc |-> "", item |-> analysis_matches[1]]
  ELSE [exc |-> InputError, item |-> NoItem]

\* match_node once _filtered_matches has returned or raised
AfterFilter(self, fm) ==
  IF fm.exc # "" THEN [exc |-> fm.exc, item |-> NoItem]
  ELSE SelectMatch(self, AnalysisMatches(self, fm.matches))

\* one entry of the call log kept beside the loop: what _filtered_matches
\* and match_node gave at the node and what the loop body did with it
LogEntry(node, fm, r, out) ==
  [subject_id |-> node.subject_id, visit_id |-> node.visit_id,
   filtered |-> fm, exc |-> r.exc, item |-> r.item, out |-> out]

\* BaseInputMixin.match_node: [exc, item]
MatchNode(self, node, valid_formats) ==
  AfterFilter(self, FilteredMatches(self, node, valid_formats))

\* variant: per-session enumeration stops after the first subject
NodesFirstSubject(self, tree) ==
  IF self.frequency = "per_session"
  THEN IF tree.subjects = <<>> THEN <<>> ELSE tree.subjects[1].sessions
  ELSE IF self.frequency = "per_subject"
  THEN [s \in 1..Len(tree.subjects) |-> tree.subjects[s].node]
  ELSE IF self.frequency = "per_visit"
  THEN tree.visits
  ELSE <<TreeRootNode(tree)>>

\* BaseInputMixin.nodes
Nodes(self, tree) ==
  IF self.frequency = "per_session"
  THEN Chain([s \in 1..Len(tree.subjects) |-> tree.subjects[s].sessions])
  ELSE IF self.frequency = "per_subject"
  THEN [s \in 1..Len(tree.subjects) |-> tree.subjects[s].node]
  ELSE IF self.frequency = "per_visit"
  THEN tree.visits
  ELSE <<TreeRootNode(tree)>>

\* self._fallback.slice.item(subject_id=..., visit_id=...)
FallbackItem(self, node) ==
  [NoItem EXCEPT !.kind = IF self.cls = "FilesetFilter" THEN "fileset" ELSE "field",
                 !.src = "fallback", !.name = self.name, !.basename = self.name,
                 !.dataset = AnalysisDataset(Val(self.fallback).analysis),
                 !.from_analysis = Some(Val(self.fallback).analysis),
                 !.frequency = self.frequency,
                 !.subject_id = node.subject_id, !.visit_id = node.visit_id,
                 !.exists = ~Val(self.fallback).derived]

\* item_cls(self.name, ..., exists=False, **self._specific_kwargs)
Placeholder(self, node) ==
  [NoItem EXCEPT !.kind = IF self.cls = "FilesetFilter" THEN "fileset" ELSE "field",
                 !.src = "placeholder", !.name = self.name, !.basename = self.name,
                 !.dataset = AnalysisDataset(Val(self.analysis)),
                 !.from_analysis = self.from_analysis,
                 !.format = IF self.cls = "FilesetFilter" THEN SelfFormat(self) ELSE None,
                 !.frequency = self.frequency,
                 !.subject_id = node.subject_id, !.visit_id = node.visit_id,
                 !.exists = FALSE]

NodeError(e, node) ==
  [exc |-> e, subject_id |-> node.subject_id, visit_id |-> node.visit_id]

\* the class of the collated error
CollatedError(errors) ==
  IF \A i \in 1..Len(errors) : errors[i].exc = MissingMatchError
  THEN MissingMatchError ELSE InputError

\* one pass of the loop body of BaseInputMixin._match at `node`:
\* the item appended, the error collected, or the exception that leaves
\* the loop
NodeOutcome(self, node, r) ==
  IF r.exc = "" THEN [kind |-> "item", item |-> r.item, exc |-> ""]
  ELSE IF r.exc = MissingMatchError /\ self.fallback # None
  THEN [kind |-> "item", item |-> FallbackItem(self, node), exc |-> ""]
  ELSE IF r.exc = MissingMatchError /\ self.skip_missing
  THEN IF self.analysis = None
       THEN [kind |-> "abort", item |-> NoItem, exc |-> NotBoundError]
       ELSE [kind |-> "item", item |-> Placeholder(self, node), exc |-> ""]
  ELSE IF IsInputError(r.exc)
  THEN [kind |-> "error", item |-> NoItem, exc |-> r.exc]
  ELSE [kind |-> "abort", item |-> NoItem, exc |-> r.exc]

\* the loop state after the outcome `out` at `node`
Accumulate(acc, node, out, entry) ==
  [exc |-> IF out.kind = "abort" THEN out.exc ELSE "",
   items |-> IF out.kind = "item" THEN Append(acc.items, out.item) ELSE acc.items,
   errors |-> IF out.kind = "error"
              THEN Append(acc.errors, NodeError(out.exc, node)) ELSE acc.errors,
   visited |-> acc.visited + 1,
   log |-> Append(acc.log, entry)]

\* the loop body of _match at `node`, given what _filtered_matches gave
LoopBody(self, acc, node, fm) ==
  Accumulate(acc, node, NodeOutcome(self, node, AfterFilter(self, fm)),
             LogEntry(node, fm, AfterFilter(self, fm),
                      NodeOutcome(self, node, AfterFilter(self, fm))))

RECURSIVE MatchLoop(_, _, _, _)
\* the loop of BaseInputMixin._match: an exception that is no input error
\* leaves it at once
MatchLoop(self, nodes, valid_formats, acc) ==
  IF nodes = <<>> \/ acc.exc # "" THEN acc
  ELSE MatchLoop(self, Tail(nodes), valid_formats,
         LoopBody(self, acc, Head(nodes),
                  FilteredMatches(self, Head(nodes), valid_formats)))

NoMatch ==
  [exc |-> "", items |-> <<>>, errors |-> <<>>, visited |-> 0, log |-> <<>>]

\* the collation after the loop: [exc, items, errors, visited]
Collate(acc) ==
  IF acc.exc = "" /\ acc.errors # <<>>
  THEN [acc EXCEPT !.exc = CollatedError(acc.errors), !.items = <<>>]
  ELSE [acc EXCEPT !.items = IF acc.exc = "" THEN @ ELSE <<>>]

\* BaseInputMixin._match
DoMatch(self, tree, valid_formats) ==
  Collate(MatchLoop(self, Nodes(self, tree), valid_formats, NoMatch))

\* FilesetFilter.match / FieldFilter.match
Match(self, tree, valid_formats) ==
  IF self.cls = "FilesetFilter" /\ self.valid_formats = None /\ valid_formats = None
  THEN [NoMatch EXCEPT !.exc = UsageError]
  ELSE DoMatch(self, tree,
               IF self.cls = "FilesetFilter" /\ self.valid_formats # None
               THEN self.valid_formats ELSE valid_formats)

\* ------------------------------------------------------ data specs
\* the data spec a selector is paired with: derived or acquired, its
\* default (None if it has none) and the formats it accepts
SpecConfigs ==
  { [derived |-> TRUE, default |-> None, valid_formats |-> Some(<<"F1">>)],
    [derived |-> FALSE, default |-> Some("dflt"), valid_formats |-> Some(<<"F1">>)],
    [derived |-> FALSE, default |-> None, valid_formats |-> Some(<<"F1">>)] }

\* spec.bind(analysis)
SpecBind(spec, analysis) ==
  [analysis |-> analysis, derived |-> spec.derived, default |-> spec.default]

\* valid_formats as bind reads it off the spec (a field spec has neither
\* valid_formats nor format)
SpecValidFormats(spec, self) ==
  IF self.cls = "FilesetFilter" THEN spec.valid_formats ELSE None

\* ---------------------------------------------------------------- bind
\* variant: the bound-already test never succeeds
AlreadyBoundNever(self, analysis) == FALSE

\* `self._analysis == analysis`
AlreadyBound(self, analysis) == self.analysis = Some(analysis)

\* the fallback check of bind: TRUE when it raises the usage error
FallbackRaises(self, spec) ==
  self.fallback_to_default /\ ~spec.derived /\ spec.default # None

\* the copy with its analysis, derivable flag and fallback set
BoundCopy(self, analysis, spec) ==
  IF self.fallback_to_default
  THEN [self EXCEPT !.analysis = Some(analysis),
                    !.derivable = IF spec.derived THEN TRUE ELSE @,
                    !.fallback = Some(SpecBind(spec, analysis))]
  ELSE [self EXCEPT !.analysis = Some(analysis)]

\* variant: the selector's own dataset is ignored
MatchDatasetOfAnalysis(self, analysis) == AnalysisDataset(analysis)

\* the dataset whose tree is matched
MatchDataset(self, analysis) ==
  IF self.dataset = None THEN AnalysisDataset(analysis) ELSE Val(self.dataset)

Event(ev, ds) == [ev |-> ev, ds |-> ds]

\* FilesetSlice(...) / FieldSlice(...)
Slice(self, items) ==
  [name |-> self.name, items |-> items, frequency |-> self.frequency]

\* variant: the scope is left only when the block ends normally
WithRepositoryLeaking(dataset, events, exc) ==
  <<Event("enter", dataset)>> \o events
  \o (IF exc = "" THEN <<Event("exit", dataset)>> ELSE <<>>)

\* `with dataset.repository:` around a block with the events `events`
\* that ends normally or with the exception exc: the scope is entered, the
\* block runs, the scope is left
WithRepository(dataset, events, exc) ==
  <<Event("enter", dataset)>> \o events \o <<Event("exit", dataset)>>

\* bind once the match has returned or raised
BindFinish(self, bound, dataset, m) ==
  [exc |-> m.exc, copied |-> m.exc = "",
   bound |-> IF m.exc = "" THEN [bound EXCEPT !.slice = Some(Slice(bound, m.items))]
             ELSE self,
   matched |-> TRUE,
   trace |-> WithRepository(dataset, <<Event("match", dataset)>>, m.exc),
   match |-> m]

\* the `with dataset.repository:` block of bind
BindMatch(self, bound, dataset, valid_formats, allTrees) ==
  BindFinish(self, bound, dataset, Match(bound, allTrees[dataset], valid_formats))

\* BaseInputMixin.bind on the object `self`:
\* [exc, copied, bound, matched, trace, match]
BindCall(self, analysis, spec, allTrees) ==
  IF AlreadyBound(self, analysis)
  THEN [exc |-> "", copied |-> FALSE, bound |-> self, matched |-> FALSE,
        trace |-> <<>>, match |-> NoMatch]
  ELSE IF FallbackRaises(self, spec)
  THEN [exc |-> UsageError, copied |-> FALSE, bound |-> self, matched |-> FALSE,
        trace |-> <<>>, match |-> NoMatch]
  ELSE BindMatch(self, BoundCopy(self, analysis, spec),
                 MatchDataset(self, analysis), SpecValidFormats(spec, self),
                 allTrees)

\* ---------------------------------------------------- constructor inputs
Classes == {"FilesetFilter", "FieldFilter"}

BaseArgs ==
  [cls |-> "FilesetFilter", spec_name |-> NameA, pattern |-> Some(NameA),
   is_regex |-> FALSE, order |-> None, from_analysis |-> None,
   skip_missing |-> FALSE, drop_if_missing |-> FALSE,
   fallback_to_default |-> FALSE, dataset |-> None,
   frequency |-> "per_session", id |-> None, dicom_tags |-> None,
   valid_formats |-> None, acceptable_quality |-> None]

Orders == {None} \cup {Some(k) : k \in (0 - 1)..MaxOrder}

\* inputs of the binding specification: the flags and the dataset vary
SelArgs ==
  { [BaseArgs EXCEPT !.cls = c, !.skip_missing = sk, !.fallback_to_default = fb,
                     !.dataset = d, !.frequency = f, !.order = ord]
      : c \in Classes, sk \in BOOLEAN, fb \in BOOLEAN,
        d \in {None, Some("D3")}, f \in {"per_session", "per_subject"},
        ord \in {None, Some(0)} }

\* the filters of a fileset selector beyond pattern, provenance and order
Extras ==
  { [id |-> None, dicom_tags |-> None, valid_formats |-> None,
     acceptable_quality |-> None],
    [id |-> Some(2), dicom_tags |-> None, valid_formats |-> None,
     acceptable_quality |-> None],
    [id |-> None, dicom_tags |-> None, valid_formats |-> None,
     acceptable_quality |-> Some({Some("good")})],
    [id |-> None, dicom_tags |-> None, valid_formats |-> Some(<<"F1", "F2">>),
     acceptable_quality |-> None],
    [id |-> None, dicom_tags |-> Some("t1"), valid_formats |-> Some(<<"F1">>),
     acceptable_quality |-> None],
    [id |-> None, dicom_tags |-> Some("t1"), valid_formats |-> Some(<<"F1", "F2">>),
     acceptable_quality |-> None],
    [id |-> None, dicom_tags |-> Some("t1"), valid_formats |-> None,
     acceptable_quality |-> None] }

Patterns ==
  { [pattern |-> Some(NameA), is_regex |-> FALSE],
    [pattern |-> Some(NameA), is_regex |-> TRUE],
    [pattern |-> None, is_regex |-> FALSE] }

\* inputs of the matching specification: the filters vary
MatchArgs ==
  { [BaseArgs EXCEPT !.cls = c, !.pattern = p.pattern, !.is_regex = p.is_regex,
                     !.order = ord, !.from_analysis = fa,
                     !.skip_missing = (pol = "skip"),
                     !.fallback_to_default = (pol = "fallback"),
                     !.frequency = f, !.id = x.id, !.dicom_tags = x.dicom_tags,
                     !.valid_formats = x.valid_formats,
                     !.acceptable_quality = x.acceptable_quality]
      : c \in Classes, p \in Patterns, ord \in Orders,
        fa \in {None, Some("x")}, pol \in {"fail", "skip", "fallback"},
        f \in Frequencies, x \in Extras }

\* a field selector takes a pattern and none of the fileset filters
WellFormed(args) ==
  args.cls = "FieldFilter" =>
    /\ args.pattern # None
    /\ args.id = None /\ args.dicom_tags = None /\ args.valid_formats = None
    /\ args.acceptable_quality = None

\* --------------------------------------------------- class composition
\* A dict is a sequence of [key, value] in insertion order (the order in
\* which the loops over a registry visit it).
Keys(d) == {d[i].key : i \in 1..Len(d)}
Values(d) == [i \in 1..Len(d) |-> d[i].value]

\* d[k] = v
DictSet(d, k, v) ==
  IF k \in Keys(d)
  THEN [i \in 1..Len(d) |-> IF d[i].key = k THEN [key |-> k, value |-> v] ELSE d[i]]
  ELSE Append(d, [key |-> k, value |-> v])

RECURSIVE DictUpdate(_, _)
\* d.update((s.name, s) for s in entries)
DictUpdate(d, entries) ==
  IF entries = <<>> THEN d
  ELSE DictUpdate(DictSet(d, Head(entries).name, Head(entries)), Tail(entries))

NotReversed(seq) == seq

\* reversed(bases)
Reversed(seq) == [i \in 1..Len(seq) |-> seq[Len(seq) + 1 - i]]

\* DatasetSpec(name, format, pipeline_name) / OptionSpec(name, default)
DataSpec(name, pipeline_name) ==
  [kind |-> "data", name |-> name, pipeline_name |-> pipeline_name, default |-> <<>>,
   optional |-> FALSE]
\* DatasetSpec(name, format, optional=True)
OptionalDataSpec(name) == [DataSpec(name, None) EXCEPT !.optional = TRUE]
OptionSpec(name, default) ==
  [kind |-> "option", name |-> name, pipeline_name |-> None, default |-> default]

\* SubStudySpec(name, study_class, name_map) / SubCompSpec(...): the
\* explicit name map is kept as its (local, global) pairs
SubStudySpec(name, study_class, name_map) ==
  [name |-> name, study_class |-> study_class, name_map |-> name_map]

\* SubStudySpec.apply_prefix: self.name + '_' + name
ApplyPrefix(sub, name) == sub.name \o <<"_">> \o name

\* the local names the explicit map names (the keys of _name_map in
\* analysis/multi.py, the keys of _inv_map in study/multi.py)
MappedLocals(sub) == {sub.name_map[i].local : i \in 1..Len(sub.name_map)}

\* Study.spec_names
SpecNames(cls) == Keys(cls.data_specs) \cup Keys(cls.option_specs)

NameError == "ArcanaNameError"

\* a lookup returns a name or raises
Found(name) == [exc |-> "", out |-> name]
NotFound == [exc |-> NameError, out |-> <<>>]

\* the keys of _name_map in study/multi.py: the names in the composite
GlobalKeys(sub) == {sub.name_map[i].global : i \in 1..Len(sub.name_map)}

\* self._name_map[name] in study/multi.py
NameMapGet(sub, name) ==
  sub.name_map[CHOOSE i \in 1..Len(sub.name_map) : sub.name_map[i].global = name].local

\* self._inv_map[name], _inv_map = dict((v, k) for k, v in _name_map.items()):
\* of two items with the same value the later one stays
InvMapGet(sub, name) ==
  sub.name_map[CHOOSE i \in 1..Len(sub.name_map) :
                 /\ sub.name_map[i].local = name
                 /\ \A j \in (i + 1)..Len(sub.name_map) : sub.name_map[j].local # name].global

\* self._name_map[name] in analysis/multi.py, where the keys are the local names
SubCompNameMapGet(sub, name) ==
  sub.name_map[CHOOSE i \in 1..Len(sub.name_map) : sub.name_map[i].local = name].global

\* SubStudySpec.strip_prefix
StripPrefix(sub, name) ==
  IF IsPrefix(sub.name \o <<"_">>, name)
  THEN Found(SubSeq(name, Len(sub.name) + 2, Len(name)))
  ELSE NotFound

\* SubStudySpec.map after strip_prefix has returned or raised
MapStripped(mapped, sub, all) ==
  IF mapped.exc # "" THEN mapped
  ELSE IF mapped.out \notin SpecNames(all[sub.study_class]) THEN NotFound
  ELSE mapped

\* SubStudySpec.map: from a name in the composite to the name in the sub-study
Map(sub, name, all) ==
  IF name \in GlobalKeys(sub) THEN Found(NameMapGet(sub, name))
  ELSE MapStripped(StripPrefix(sub, name), sub, all)

\* SubStudySpec.inverse_map: from a name in the sub-study to the name in
\* the composite
InverseMap(sub, name, all) ==
  IF name \in MappedLocals(sub) THEN Found(InvMapGet(sub, name))
  ELSE IF name \notin SpecNames(all[sub.study_class]) THEN NotFound
  ELSE Found(ApplyPrefix(sub, name))

\* SubCompSpec.map: from a name in the sub-analysis to the name in the
\* composite
SubCompMap(sub, name, all) ==
  IF name \in MappedLocals(sub) THEN Found(SubCompNameMapGet(sub, name))
  ELSE IF name \notin SpecNames(all[sub.study_class]) THEN NotFound
  ELSE Found(ApplyPrefix(sub, name))

RECURSIVE AutoPairs(_, _)
\* (apply_prefix(s.name), s.name) for s in self.auto_data_specs
AutoPairs(sub, data_specs) ==
  IF data_specs = <<>> THEN <<>>
  ELSE (IF Head(data_specs).name \in MappedLocals(sub) THEN <<>>
        ELSE << [local |-> Head(data_specs).name,
                 global |-> ApplyPrefix(sub, Head(data_specs).name)] >>)
       \o AutoPairs(sub, Tail(data_specs))

RECURSIVE UpdateByGlobal(_, _)
\* nmap.update(self._name_map), nmap keyed by the names in the composite
UpdateByGlobal(nmap, pairs) ==
  IF pairs = <<>> THEN nmap
  ELSE UpdateByGlobal(DictSet(nmap, Head(pairs).global, Head(pairs).local), Tail(pairs))

RECURSIVE UpdateByLocal(_, _)
\* nmap.update(self._name_map), nmap keyed by the names in the sub-analysis
UpdateByLocal(nmap, pairs) ==
  IF pairs = <<>> THEN nmap
  ELSE UpdateByLocal(DictSet(nmap, Head(pairs).local, Head(pairs).global), Tail(pairs))

\* SubStudySpec.name_map: composite name -> sub-study name
NameMapView(sub, all) ==
  UpdateByGlobal(UpdateByGlobal(<<>>, AutoPairs(sub, Values(all[sub.study_class].data_specs))),
                 sub.name_map)

\* SubCompSpec.name_map: sub-analysis name -> composite name
SubCompNameMapView(sub, all) ==
  UpdateByLocal(UpdateByLocal(<<>>, AutoPairs(sub, Values(all[sub.study_class].data_specs))),
                sub.name_map)

\* the classes there are before any class statement: object, Study, MultiStudy
ObjectId == 1
StudyId == 2
MultiStudyId == 3

NoClass ==
  [name |-> <<>>, bases |-> <<>>, is_study |-> FALSE, is_multi |-> FALSE,
   attrs |-> {}, auto_added |-> {}, generated |-> {},
   data_specs |-> <<>>, option_specs |-> <<>>,
   add_sub_study_specs |-> <<>>, sub_study_specs |-> <<>>]

Builtins ==
  << [NoClass EXCEPT !.name = <<"object">>],
     [NoClass EXCEPT !.name = <<"Study">>, !.bases = <<ObjectId>>, !.is_study = TRUE],
     [NoClass EXCEPT !.name = <<"MultiStudy">>, !.bases = <<StudyId>>,
                     !.is_study = TRUE, !.is_multi = TRUE] >>

\* the attributes of `base` that go into combined_attrs
BaseAttrs(base) ==
  {a \in base.attrs : ~base.is_study \/ a \notin SpecNames(base)}

RECURSIVE MergeData(_, _, _)
\* the loop over reversed(bases) updating combined_data_specs; a base
\* without data_specs() is passed over
MergeData(d, bases, all) ==
  IF bases = <<>> THEN d
  ELSE MergeData(IF all[Head(bases)].is_study
                 THEN DictUpdate(d, Values(all[Head(bases)].data_specs)) ELSE d,
                 Tail(bases), all)

RECURSIVE MergeOptions(_, _, _)
MergeOptions(d, bases, all) ==
  IF bases = <<>> THEN d
  ELSE MergeOptions(IF all[Head(bases)].is_study
                    THEN DictUpdate(d, Values(all[Head(bases)].option_specs)) ELSE d,
                    Tail(bases), all)

RECURSIVE MergeSubs(_, _, _)
\* the loop updating sub_study_specs / subcomp_specs
MergeSubs(d, bases, all) ==
  IF bases = <<>> THEN d
  ELSE MergeSubs(IF all[Head(bases)].is_multi
                 THEN DictUpdate(d, Values(all[Head(bases)].sub_study_specs)) ELSE d,
                 Tail(bases), all)

CombinedAttrs(bases, dct, all) ==
  UNION {BaseAttrs(all[bases[i]]) : i \in 1..Len(bases)} \cup dct.methods

\* a metaclass returns the class or raises the usage error; msg holds the
\* names the message of the pipeline check is formatted with
Refused(msg) == [exc |-> UsageError, cls |-> NoClass, msg |-> msg]
Created(cls) == [exc |-> "", cls |-> cls, msg |-> <<>>]

PipelineNeverMissing(dct, combined_attrs) == FALSE

\* the pipeline check over add_data_specs
PipelineMissing(dct, combined_attrs) ==
  \E i \in 1..Len(dct.add_data_specs) :
    /\ dct.add_data_specs[i].pipeline_name # None
    /\ Val(dct.add_data_specs[i].pipeline_name) \notin combined_attrs

\* cls._sub_study_specs of a class whose dct has none: the attribute of
\* the first base that has one
InheritedSubs(bases, all) ==
  IF \E i \in 1..Len(bases) : all[bases[i]].is_multi
  THEN all[bases[CHOOSE i \in 1..Len(bases) :
                   /\ all[bases[i]].is_multi
                   /\ \A j \in 1..(i - 1) : ~all[bases[j]].is_multi]].sub_study_specs
  ELSE <<>>

\* (spec.name, spec.pipeline_name) of the first spec the pipeline check
\* fails for
MissingPipelineOf(dct, combined_attrs) ==
  << dct.add_data_specs[CHOOSE i \in 1..Len(dct.add_data_specs) :
       /\ dct.add_data_specs[i].pipeline_name # None
       /\ Val(dct.add_data_specs[i].pipeline_name) \notin combined_attrs
       /\ \A j \in 1..(i - 1) :
            \/ dct.add_data_specs[j].pipeline_name = None
            \/ Val(dct.add_data_specs[j].pipeline_name) \in combined_attrs].name,
     Val(dct.add_data_specs[CHOOSE i \in 1..Len(dct.add_data_specs) :
       /\ dct.add_data_specs[i].pipeline_name # None
       /\ Val(dct.add_data_specs[i].pipeline_name) \notin combined_attrs
       /\ \A j \in 1..(i - 1) :
            \/ dct.add_data_specs[j].pipeline_name = None
            \/ Val(dct.add_data_specs[j].pipeline_name) \in combined_attrs].pipeline_name) >>

\* type(name, bases, dct) with the combined registries in dct
TypeNew(name, bases, dct, all, combined_data_specs, combined_option_specs) ==
  [name |-> name, bases |-> bases,
   is_study |-> \E i \in 1..Len(bases) : all[bases[i]].is_study,
   is_multi |-> \E i \in 1..Len(bases) : all[bases[i]].is_multi,
   attrs |-> UNION {all[bases[i]].attrs : i \in 1..Len(bases)} \cup dct.methods,
   auto_added |-> {}, generated |-> {},
   data_specs |-> combined_data_specs, option_specs |-> combined_option_specs,
   add_sub_study_specs |-> dct.add_sub_study_specs,
   sub_study_specs |-> InheritedSubs(bases, all)]

\* StudyMetaClass.__new__ after the registries are combined: [exc, cls]
StudyMetaChecks(name, bases, dct, all, combined_data_specs, combined_option_specs) ==
  IF PipelineMissing(dct, CombinedAttrs(bases, dct, all))
  THEN Refused(MissingPipelineOf(dct, CombinedAttrs(bases, dct, all)))
  ELSE IF Keys(combined_data_specs) \cap Keys(combined_option_specs) # {}
  THEN Refused(<<>>)
  ELSE Created(TypeNew(name, bases, dct, all, combined_data_specs,
                       combined_option_specs))

StudyMetaClassBasesLast(name, bases, dct, all) ==
  IF ~\E i \in 1..Len(bases) : all[bases[i]].is_study
  THEN Refused(<<>>)
  ELSE StudyMetaChecks(name, bases, dct, all,
         MergeData(DictUpdate(<<>>, dct.add_data_specs), Reversed(bases), all),
         MergeOptions(DictUpdate(<<>>, dct.add_option_specs), Reversed(bases), all))

\* StudyMetaClass.__new__: [exc, cls]
StudyMetaClass(name, bases, dct, all) ==
  IF ~\E i \in 1..Len(bases) : all[bases[i]].is_study
  THEN Refused(<<>>)
  ELSE StudyMetaChecks(name, bases, dct, all,
         DictUpdate(MergeData(<<>>, Reversed(bases), all), dct.add_data_specs),
         DictUpdate(MergeOptions(<<>>, Reversed(bases), all), dct.add_option_specs))

AddTranslatedDataClobbering(cls, sub, spec) ==
  [cls EXCEPT
     !.data_specs = DictSet(@, ApplyPrefix(sub, spec.name),
                            [spec EXCEPT !.name = ApplyPrefix(sub, spec.name)]),
     !.generated = @ \cup {ApplyPrefix(sub, spec.name)},
     !.auto_added = IF spec.pipeline_name = None THEN @
                    ELSE @ \cup {ApplyPrefix(sub, Val(spec.pipeline_name))}]

AddTranslatedDataUnprefixed(cls, sub, spec) ==
  [cls EXCEPT !.data_specs = DictSet(@, spec.name, spec)]

\* the translated spec of one auto data spec and the translated getter
\* set on the class if it has no attribute of that name
AddTranslatedData(cls, sub, spec) ==
  [cls EXCEPT
     !.data_specs =
       DictSet(@, ApplyPrefix(sub, spec.name),
               [spec EXCEPT !.name = ApplyPrefix(sub, spec.name),
                            !.pipeline_name =
                              IF spec.pipeline_name = None THEN None
                              ELSE Some(ApplyPrefix(sub, Val(spec.pipeline_name)))]),
     !.generated = @ \cup {ApplyPrefix(sub, spec.name)},
     !.attrs =
       IF spec.pipeline_name = None THEN @
       ELSE @ \cup {ApplyPrefix(sub, Val(spec.pipeline_name))},
     !.auto_added =
       IF spec.pipeline_name # None
          /\ ApplyPrefix(sub, Val(spec.pipeline_name)) \notin cls.attrs
       THEN @ \cup {ApplyPrefix(sub, Val(spec.pipeline_name))} ELSE @]

RECURSIVE AutoData(_, _, _)
\* `for data_spec in sub_study_spec.auto_data_specs`
AutoData(cls, sub, data_specs) ==
  IF data_specs = <<>> THEN cls
  ELSE AutoData(IF Head(data_specs).name \notin MappedLocals(sub)
                   /\ ApplyPrefix(sub, Head(data_specs).name) \notin Keys(cls.data_specs)
                THEN AddTranslatedData(cls, sub, Head(data_specs))
                ELSE cls,
                sub, Tail(data_specs))

AutoOptionsSkipped(cls, sub, option_specs) == cls

RECURSIVE AutoOptions(_, _, _)
\* `for opt_spec in sub_study_spec.auto_option_specs`
AutoOptions(cls, sub, option_specs) ==
  IF option_specs = <<>> THEN cls
  ELSE AutoOptions(IF Head(option_specs).name \notin MappedLocals(sub)
                      /\ ApplyPrefix(sub, Head(option_specs).name)
                           \notin Keys(cls.option_specs)
                   THEN [cls EXCEPT !.option_specs =
                           DictSet(@, ApplyPrefix(sub, Head(option_specs).name),
                                   [Head(option_specs) EXCEPT
                                      !.name = ApplyPrefix(sub, Head(option_specs).name)]),
                                    !.generated =
                                      @ \cup {ApplyPrefix(sub, Head(option_specs).name)}]
                   ELSE cls,
                   sub, Tail(option_specs))

RECURSIVE AutoGenerate(_, _, _)
\* the generation loop over the sub-component specs of the registry
AutoGenerate(cls, subs, all) ==
  IF subs = <<>> THEN cls
  ELSE AutoGenerate(
         AutoOptions(AutoData(cls, Head(subs),
                              Values(all[Head(subs).study_class].data_specs)),
                     Head(subs),
                     Values(all[Head(subs).study_class].option_specs)),
         Tail(subs), all)

\* the validation loop raises at an explicit pair of `sub`
Dangling(sub, cls, all) ==
  \E i \in 1..Len(sub.name_map) :
    \/ sub.name_map[i].local \notin SpecNames(all[sub.study_class])
    \/ sub.name_map[i].global \notin SpecNames(cls)

\* the validation loop over the sub-component specs of the registry
Validate(cls, subs, all) ==
  IF \E i \in 1..Len(subs) : Dangling(subs[i], cls, all)
  THEN Refused(<<>>)
  ELSE Created(cls)

\* the multi metaclass once the base metaclass has returned or raised
AfterStudyMeta(made_, sub_study_specs, all) ==
  IF made_.exc # "" THEN made_
  ELSE Validate(AutoGenerate([made_.cls EXCEPT !.sub_study_specs = sub_study_specs],
                             Values(sub_study_specs), all),
                Values(sub_study_specs), all)

\* MultiStudyMetaClass.__new__ / MultiAnalysisMetaClass.__new__: [exc, cls]
MultiStudyMetaClass(name, bases, dct, all) ==
  IF ~\E i \in 1..Len(bases) : all[bases[i]].is_multi
  THEN Refused(<<>>)
  ELSE AfterStudyMeta(StudyMetaClass(name, bases, dct, all),
                      DictUpdate(MergeSubs(<<>>, Reversed(bases), all),
                                 dct.add_sub_study_specs),
                      all)

\* --- class statements
NX == <<"x">>
NY == <<"y">>
NOpt == <<"o">>
NPipe == <<"p">>
NG == <<"g">>
NH == <<"h">>
NQ == <<"q">>
NSX == <<"s", "_", "x">>

Dct(add_data_specs, add_option_specs, methods, add_sub_study_specs) ==
  [add_data_specs |-> add_data_specs, add_option_specs |-> add_option_specs,
   methods |-> methods, add_sub_study_specs |-> add_sub_study_specs]

\* the bodies of plain study classes
PlainDcts ==
  { Dct(<<DataSpec(NX, None)>>, <<OptionSpec(NOpt, <<"A">>)>>, {}, <<>>),
    Dct(<<DataSpec(NX, None), DataSpec(NY, Some(NPipe))>>,
        <<OptionSpec(NOpt, <<"B">>)>>, {NPipe}, <<>>),
    Dct(<<DataSpec(NY, Some(NPipe))>>, <<>>, {}, <<>>),
    Dct(<<DataSpec(NY, None)>>, <<OptionSpec(NOpt, <<"B">>)>>, {}, <<>>),
    Dct(<<DataSpec(NX, None)>>, <<OptionSpec(NX, <<"A">>)>>, {}, <<>>) }

Pair(local, global) == [local |-> local, global |-> global]

\* explicit name maps; "local" says the dict is keyed by the local names
\* (analysis/multi.py), "global" by the global names (study/multi.py)
NameMaps(keyed) ==
  { <<>>, <<Pair(NX, NG)>>, <<Pair(NQ, NG)>>, <<Pair(NX, NH)>> }
  \cup (IF keyed = "local" THEN { <<Pair(NX, NG), Pair(NOpt, NG)>> }
        ELSE { <<Pair(NX, NG), Pair(NX, NH)>> })

SubNames == { <<"s">>, <<"t">> }

\* the classes a class statement can name: those defined by the run
Defined(all) == {c \in 1..Len(all) : c > MultiStudyId}

SubSpecs(all, keyed) ==
  { SubStudySpec(n, c, m) : n \in SubNames, c \in Defined(all), m \in NameMaps(keyed) }

SubSpecLists(all, keyed) ==
  UNION { [1..k -> SubSpecs(all, keyed)] : k \in 0..MaxSubs }

\* the bodies of composite classes
MultiDcts(all) ==
  { Dct(d, o, {}, subs) :
      d \in { <<>>, <<DataSpec(NG, None)>>, <<DataSpec(NG, None), DataSpec(NH, None)>> },
      o \in { <<>>, <<OptionSpec(NSX, <<"M">>)>> },
      subs \in SubSpecLists(all, "local") \cup SubSpecLists(all, "global") }

ClassName(all) == <<"C", Str(Len(all) - MultiStudyId + 1)>>

NoMade ==
  [op |-> "", bases |-> <<>>, dct |-> Dct(<<>>, <<>>, {}, <<>>), exc |-> "", cls |-> 0,
   msg |-> <<>>]

ClassEffect(op, bases, dct, r) ==
  /\ classes' = IF r.exc = "" THEN Append(classes, r.cls) ELSE classes
  /\ made' = [op |-> op, bases |-> bases, dct |-> dct, exc |-> r.exc, msg |-> r.msg,
              cls |-> IF r.exc = "" THEN Len(classes) + 1 ELSE 0]

\* no name lookup made yet
NoLookup ==
  [fn |-> "", cls |-> 0, sub |-> 0, arg |-> <<>>, exc |-> "", out |-> <<>>,
   prev |-> [fn |-> "", arg |-> <<>>, exc |-> "", out |-> <<>>]]

\* no instance constructed yet
NoInst == [cls |-> 0, name |-> <<>>, options |-> <<>>, sub_studies |-> <<>>]
NoStudy == [op |-> "", cls |-> 0, options |-> <<>>, exc |-> "", inst |-> NoInst]

\* the class statements of the module run before the classes are used
Importing == made.exc = "" /\ lookup.fn = "" /\ study.op = ""

\* class C(bases): __metaclass__ = StudyMetaClass; ...  (a class statement
\* that raises ends the run of the module defining the classes)
DefineStudyOf(limit, baseLists, dcts) ==
  /\ Len(classes) < MultiStudyId + limit /\ Importing
  /\ \E bases \in baseLists, dct \in dcts :
       ClassEffect("study", bases, dct,
                   StudyMetaClass(ClassName(classes), bases, dct, classes))
  /\ UNCHANGED <<heap, ret, trees, specs, lookup, study>>

\* class C(bases): __metaclass__ = MultiStudyMetaClass; ...
DefineMultiStudyOf(limit, baseLists, dcts) ==
  /\ Len(classes) < MultiStudyId + limit /\ Importing
  /\ \E bases \in baseLists, dct \in dcts :
       ClassEffect("multi", bases, dct,
                   MultiStudyMetaClass(ClassName(classes), bases, dct, classes))
  /\ UNCHANGED <<heap, ret, trees, specs, lookup, study>>

\* the class statements with one base
OneBase(bs) == {<<b>> : b \in bs}

RECURSIVE Ancestors(_, _)
\* the classes a class derives from
Ancestors(c, all) ==
  {all[c].bases[i] : i \in 1..Len(all[c].bases)}
  \cup UNION {Ancestors(all[c].bases[i], all) : i \in 1..Len(all[c].bases)}

\* base lists of several classes defined by the run: no class twice, and
\* none derived from another of the list or sharing a defined ancestor with
\* it (the lists for which the resolution order is that of the list)
Unrelated(a, b, all) ==
  /\ a # b /\ a \notin Ancestors(b, all) /\ b \notin Ancestors(a, all)
  /\ Ancestors(a, all) \cap Ancestors(b, all) \cap Defined(all) = {}

SeveralBases(all) ==
  UNION { {bs \in [1..k -> Defined(all)] :
             \A i \in 1..k : \A j \in 1..k : i # j => Unrelated(bs[i], bs[j], all)}
          : k \in 2..MaxBases }

\* the bodies of the classes of the inheritance specification
EmptyDct == Dct(<<>>, <<>>, {}, <<>>)

InheritDcts ==
  { EmptyDct,
    Dct(<<DataSpec(NX, None)>>, <<OptionSpec(NOpt, <<"A">>)>>, {}, <<>>),
    Dct(<<DataSpec(NX, None), DataSpec(NY, Some(NPipe))>>,
        <<OptionSpec(NOpt, <<"B">>)>>, {NPipe}, <<>>),
    Dct(<<DataSpec(NY, None)>>, <<OptionSpec(NOpt, <<"A">>)>>, {}, <<>>) }

InheritMultiDcts(all) ==
  { EmptyDct } \cup
  { Dct(<<DataSpec(NG, None)>>, <<>>, {}, <<SubStudySpec(<<"s">>, c, m)>>) :
      c \in {d \in Defined(all) : ~all[d].is_multi}, m \in {<<>>, <<Pair(NX, NG)>>} }

\* class statements with one or several bases
DefineDerivedStudy ==
  DefineStudyOf(MaxClasses + MaxBases, OneBase({StudyId}) \cup SeveralBases(classes),
                InheritDcts)

DefineDerivedMultiStudy ==
  DefineMultiStudyOf(MaxClasses + MaxBases,
                     OneBase({MultiStudyId}) \cup SeveralBases(classes),
                     InheritMultiDcts(classes))

DefineStudy ==
  DefineStudyOf(MaxClasses, OneBase({ObjectId, StudyId} \cup Defined(classes)), PlainDcts)

DefineMultiStudy ==
  DefineMultiStudyOf(MaxClasses, OneBase({StudyId, MultiStudyId} \cup Defined(classes)),
                     MultiDcts(classes))

\* --- name lookups on the sub-study specs of the class defined last
\* a dict has one item per key
KeyedByGlobal(sub) == Cardinality(GlobalKeys(sub)) = Len(sub.name_map)
KeyedByLocal(sub) == Cardinality(MappedLocals(sub)) = Len(sub.name_map)

\* the names lookups are made with
LookupNames(sub) ==
  {NX, NY, NOpt, NG, NH, NQ} \cup {ApplyPrefix(sub, n) : n \in {NX, NY, NOpt, NQ}}

\* a first lookup with any name, or one more lookup on the same spec with
\* the name the lookup before returned
CanLookup(c, i, arg) ==
  /\ c = made.cls /\ made.exc = "" /\ study.op = ""
  /\ i \in 1..Len(classes[c].sub_study_specs)
  /\ \/ lookup.fn = "" /\ arg \in LookupNames(classes[c].sub_study_specs[i].value)
     \/ /\ lookup.fn # "" /\ lookup.prev.fn = "" /\ lookup.exc = ""
        /\ lookup.cls = c /\ lookup.sub = i /\ arg = lookup.out

LookupEffect(fn, c, i, arg, r) ==
  /\ lookup' = [fn |-> fn, cls |-> c, sub |-> i, arg |-> arg, exc |-> r.exc, out |-> r.out,
                prev |-> [fn |-> lookup.fn, arg |-> lookup.arg, exc |-> lookup.exc,
                          out |-> lookup.out]]
  /\ UNCHANGED <<heap, ret, trees, specs, classes, made, study>>

LookupArgs(c) ==
  {lookup.out} \cup UNION {LookupNames(classes[c].sub_study_specs[i].value) :
                           i \in 1..Len(classes[c].sub_study_specs)}

\* cls.sub_study_spec(name).map(arg)
MapCall ==
  /\ made.cls > 0
  /\ \E i \in 1..MaxSubs, arg \in LookupArgs(made.cls) :
       /\ CanLookup(made.cls, i, arg)
       /\ KeyedByGlobal(classes[made.cls].sub_study_specs[i].value)
       /\ LookupEffect("map", made.cls, i, arg,
                       Map(classes[made.cls].sub_study_specs[i].value, arg, classes))

\* cls.sub_study_spec(name).inverse_map(arg)
InverseMapCall ==
  /\ made.cls > 0
  /\ \E i \in 1..MaxSubs, arg \in LookupArgs(made.cls) :
       /\ CanLookup(made.cls, i, arg)
       /\ KeyedByGlobal(classes[made.cls].sub_study_specs[i].value)
       /\ LookupEffect("inverse_map", made.cls, i, arg,
                       InverseMap(classes[made.cls].sub_study_specs[i].value, arg, classes))

\* cls.subcomp_spec(name).map(arg)
SubCompMapCall ==
  /\ made.cls > 0
  /\ \E i \in 1..MaxSubs, arg \in LookupArgs(made.cls) :
       /\ CanLookup(made.cls, i, arg)
       /\ KeyedByLocal(classes[made.cls].sub_study_specs[i].value)
       /\ LookupEffect("subcomp_map", made.cls, i, arg,
                       SubCompMap(classes[made.cls].sub_study_specs[i].value, arg, classes))

\* ------------------------------------------------------- state machine
NoRet ==
  [op |-> "", self |-> 0, analysis |-> "", ctor |-> BaseArgs, exc |-> "",
   obj |-> 0, matched |-> FALSE, trace |-> <<>>, match |-> NoMatch]

ConstructEffect(args, r) ==
  /\ heap' = IF r.exc = "" THEN <<r.obj>> ELSE heap
  /\ ret' = [NoRet EXCEPT !.op = "init", !.ctor = args, !.exc = r.exc,
                          !.obj = IF r.exc = "" THEN 1 ELSE 0]

\* FilesetFilter(...) / FieldFilter(...) with arguments out of argSet: the
\* first constructor call of the run
Construct(argSet) ==
  /\ heap = <<>> /\ ret.op = ""
  /\ \E args \in argSet : WellFormed(args) /\ ConstructEffect(args, NewSelector(args))
  /\ UNCHANGED <<trees, specs, classes, made, lookup, study>>

\* variant: the items a match returns are stored at the root of the tree
TreesWithMatched(allTrees, dataset, m) ==
  [allTrees EXCEPT ![dataset].filesets = @ \o m.items]

\* the trees after bind: match_node and _match read node.filesets and
\* node.fields and build their lists apart from them; nothing is assigned
\* to a node
TreesAfterMatch(allTrees, dataset, m) == allTrees

BindEffect(o, analysis, r) ==
  /\ heap' = IF r.copied THEN Append(heap, r.bound) ELSE heap
  /\ trees' = TreesAfterMatch(trees, MatchDataset(heap[o], analysis), r.match)
  /\ ret' = [NoRet EXCEPT !.op = "bind", !.self = o, !.analysis = analysis,
                          !.exc = r.exc,
                          !.obj = IF r.exc # "" THEN 0
                                  ELSE IF r.copied THEN Len(heap) + 1 ELSE o,
                          !.matched = r.matched, !.trace = r.trace,
                          !.match = r.match]

\* heap[o].bind(analysis)
Bind(o, analysis) ==
  /\ o \in 1..Len(heap)
  /\ Len(heap) < MaxObjs
  /\ BindEffect(o, analysis, BindCall(heap[o], analysis, specs[analysis], trees))
  /\ UNCHANGED <<specs, classes, made, lookup, study>>

\* --- binding specification: one template, bound and re-bound
SelTrees1 ==
  { MkTree("D1", 0, 0, <<>>, <<>>) } \cup
  { MkTree("D1", 1, MaxNodes, f, <<ItemA1>>) : f \in {<<>>, <<ItemA1>>, <<ItemA1, ItemA2>>} }
SelTrees2 ==
  { MkTree("D2", 1, 1, <<ItemA1>>, <<>>), MkTree("D2", MaxNodes, 1, <<ItemA1>>, <<ItemA1>>) }
Tree3 == MkTree("D3", 1, 1, <<ItemA1>>, <<>>)

Init ==
  /\ heap = <<>>
  /\ ret = NoRet
  /\ \E t1 \in SelTrees1, t2 \in SelTrees2 :
       trees = [D1 |-> t1, D2 |-> t2, D3 |-> Tree3]
  /\ specs \in [Analyses -> SpecConfigs]
  /\ classes = Builtins
  /\ made = NoMade
  /\ lookup = NoLookup
  /\ study = NoStudy

Next ==
  \/ Construct(SelArgs)
  \/ \E o \in 1..MaxObjs, a \in Analyses : Bind(o, a)

Spec == Init /\ [][Next]_vars

\* --- matching specification: one selector with any filters, bound once
MatchSpecConfigs ==
  { [derived |-> TRUE, default |-> None, valid_formats |-> Some(<<"F1">>)],
    [derived |-> FALSE, default |-> None, valid_formats |-> None] }

InitMatch ==
  /\ heap = <<>>
  /\ ret = NoRet
  /\ \E t1 \in TreesOf("D1", ProtoLists, RestLists) :
       trees = [D1 |-> t1, D2 |-> MkTree("D2", 1, 1, <<ItemA1>>, <<>>), D3 |-> Tree3]
  /\ \E c \in MatchSpecConfigs : specs = [a \in Analyses |-> c]
  /\ classes = Builtins
  /\ made = NoMade
  /\ lookup = NoLookup
  /\ study = NoStudy

\* the template bound to the first analysis, and bound to it again
BindTemplate == Bind(1, "A1")

NextMatch ==
  \/ Construct(MatchArgs)
  \/ BindTemplate

SpecMatch == InitMatch /\ [][NextMatch]_vars

\* --- mixed-failure specification: one selector bound once against trees
\* whose first node holds one or two candidates and whose other nodes hold
\* nothing, a candidate, or a fileset of another format
MixedTrees ==
  TreesOf("D1", {<<ItemA1, ItemA2>>, <<ItemA1>>}, {<<>>, <<ItemA1>>, <<ItemAF2>>})

MixedArgs ==
  { [BaseArgs EXCEPT !.cls = c, !.order = ord,
                     !.skip_missing = (pol = "skip"),
                     !.fallback_to_default = (pol = "fallback"),
                     !.frequency = f]
      : c \in Classes, ord \in {None, Some(0)}, pol \in {"fail", "skip", "fallback"},
        f \in Frequencies }

InitMixed ==
  /\ heap = <<>>
  /\ ret = NoRet
  /\ \E t1 \in MixedTrees :
       trees = [D1 |-> t1, D2 |-> MkTree("D2", 1, 1, <<ItemA1>>, <<>>), D3 |-> Tree3]
  /\ \E c \in MatchSpecConfigs : specs = [a \in Analyses |-> c]
  /\ classes = Builtins
  /\ made = NoMade
  /\ lookup = NoLookup
  /\ study = NoStudy

NextMixed ==
  \/ Construct(MixedArgs)
  \/ BindTemplate

SpecMixed == InitMixed /\ [][NextMixed]_vars

\* --- composition specification: class statements one after another
InitCompose ==
  /\ heap = <<>>
  /\ ret = NoRet
  /\ trees = [D1 |-> Tree3, D2 |-> Tree3, D3 |-> Tree3]
  /\ specs = [a \in Analyses |-> CHOOSE c \in SpecConfigs : c.derived]
  /\ classes = Builtins
  /\ made = NoMade
  /\ lookup = NoLookup
  /\ study = NoStudy

NextCompose ==
  \/ DefineStudy
  \/ DefineMultiStudy

SpecCompose == InitCompose /\ [][NextCompose]_vars

\* --- inheritance specification: class statements with several bases
NextInherit ==
  \/ DefineDerivedStudy
  \/ DefineDerivedMultiStudy

SpecInherit == InitCompose /\ [][NextInherit]_vars

\* --- translation specification: class statements, then name lookups
NextTranslate ==
  \/ DefineStudy
  \/ DefineMultiStudy
  \/ MapCall
  \/ InverseMapCall
  \/ SubCompMapCall

SpecTranslate == InitCompose /\ [][NextTranslate]_vars

\* --- instances (study/base.py and study/multi.py)
\* a value given for an option: a scalar (the scalars here are strings), or
\* the Option / OptionSpec object that a composite hands to a sub-study
Scalar(v) == [type |-> "str", name |-> <<>>, value |-> v]
OptionObject(type, name, value) == [type |-> type, name |-> name, value |-> value]

\* Option(name, value)
Option(name, value) == [name |-> name, value |-> value]

\* OptionSpec.dtype: the type of the scalars the option takes
Dtype(opt_spec) == "str"

\* d[k] and list(d.keys())
DictGet(d, k) == d[CHOOSE i \in 1..Len(d) : d[i].key = k].value
KeysSeq(d) == [i \in 1..Len(d) |-> d[i].key]

\* a constructor returns the instance or raises
Raised(exc) == [exc |-> exc, inst |-> NoInst]
Constructed(inst) == [exc |-> "", inst |-> inst]

\* one turn of `for opt in options` in Study.__init__: the exception or ""
OptionCheck(cls, opt) ==
  IF opt.key \notin Keys(cls.option_specs) THEN NameError
  ELSE IF opt.value.type # Dtype(DictGet(cls.option_specs, opt.key)) THEN UsageError
  ELSE ""

RECURSIVE OptionsCheck(_, _)
\* `for opt in options` in Study.__init__: the first exception or ""
OptionsCheck(cls, options) ==
  IF options = <<>> THEN ""
  ELSE IF OptionCheck(cls, Head(options)) # "" THEN OptionCheck(cls, Head(options))
  ELSE OptionsCheck(cls, Tail(options))

\* [Option(k, v) for k, v in options.items()] as the dict self._options
Wrapped(options) ==
  [i \in 1..Len(options) |->
     [key |-> options[i].key, value |-> Option(options[i].key, options[i].value)]]

\* Study.__init__ with a dict of options (the inputs given are those the
\* class needs; the option specs have no choices)
StudyInit(c, name, options, all) ==
  IF OptionsCheck(all[c], options) # "" THEN Raised(OptionsCheck(all[c], options))
  ELSE Constructed([cls |-> c, name |-> name, options |-> Wrapped(options),
                    sub_studies |-> <<>>])

\* Study._get_option: the Option of the instance, else the OptionSpec of
\* the class, else the name error
GetOption(inst, cls, name) ==
  IF name \in Keys(inst.options)
  THEN [exc |-> "", out |-> OptionObject("Option", name,
                                         DictGet(inst.options, name).value.value)]
  ELSE IF name \in Keys(cls.option_specs)
  THEN [exc |-> "", out |-> OptionObject("OptionSpec", name,
                                         Val(DictGet(cls.option_specs, name).default))]
  ELSE [exc |-> NameError, out |-> OptionObject("", <<>>, "")]

\* mapped_options[opt_name] = option, or the exception of _get_option
SetMapped(acc, opt_name, option) ==
  IF acc.exc # "" THEN acc
  ELSE IF option.exc # "" THEN [exc |-> option.exc, out |-> <<>>]
  ELSE [exc |-> "", out |-> DictSet(acc.out, opt_name, option.out)]

RECURSIVE MappedOptions(_, _, _, _, _)
\* `for opt_name in sub_study_cls.option_spec_names()`: [exc, out]
MappedOptions(inst, sub, names, all, acc) ==
  IF names = <<>> THEN acc
  ELSE MappedOptions(inst, sub, Tail(names), all,
         SetMapped(acc, Head(names),
                   GetOption(inst, all[inst.cls],
                             InverseMap(sub, Head(names), all).out)))

RECURSIVE NewInstance(_, _, _, _)
RECURSIVE SubStudyLoop(_, _, _)

\* the duplicate check and self._sub_studies[sub_study_spec.name] = sub_study
AfterSubStudy(inst, subs, all, r) ==
  IF r.exc # "" THEN Raised(r.exc)
  ELSE IF Head(subs).name \in Keys(inst.sub_studies) THEN Raised(NameError)
  ELSE SubStudyLoop([inst EXCEPT !.sub_studies = DictSet(@, Head(subs).name, r.inst)],
                    Tail(subs), all)

\* sub_study_spec.study_class(name + '_' + sub_study_spec.name, ...,
\*                            options=mapped_options)
AfterMapped(inst, subs, all, mapped) ==
  IF mapped.exc # "" THEN Raised(mapped.exc)
  ELSE AfterSubStudy(inst, subs, all,
         NewInstance(Head(subs).study_class, inst.name \o <<"_">> \o Head(subs).name,
                     mapped.out, all))

\* `for sub_study_spec in self.sub_study_specs()` in MultiStudy.__init__
SubStudyLoop(inst, subs, all) ==
  IF subs = <<>> THEN Constructed(inst)
  ELSE AfterMapped(inst, subs, all,
         MappedOptions(inst, Head(subs),
                       KeysSeq(all[Head(subs).study_class].option_specs), all,
                       [exc |-> "", out |-> <<>>]))

\* MultiStudy.__init__ once Study.__init__ has returned or raised
AfterStudyInit(r, all) ==
  IF r.exc # "" THEN r
  ELSE SubStudyLoop(r.inst, Values(all[r.inst.cls].sub_study_specs), all)

\* cls(name, repository, runner, inputs, options): Study.__init__, or
\* MultiStudy.__init__ for a composite class (the classes are made by the
\* metaclass their constructor asks for)
NewInstance(c, name, options, all) ==
  IF all[c].is_multi THEN AfterStudyInit(StudyInit(c, name, options, all), all)
  ELSE StudyInit(c, name, options, all)

NSO == <<"s", "_", "o">>
NTO == <<"t", "_", "o">>
NTSO == <<"t", "_", "s", "_", "o">>
NSY == <<"s", "_", "y">>
NSP == <<"s", "_", "p">>

\* the options a caller gives
Supplied ==
  { <<>> } \cup
  { <<[key |-> n, value |-> Scalar("Z")]>> : n \in {NOpt, NQ, NSO, NTO, NTSO} }

\* study = C('n', repository, runner, inputs, options) for the class
\* defined last
NewStudy ==
  /\ made.cls > 0 /\ Importing
  /\ \E options \in Supplied :
       study' = [op |-> "new", cls |-> made.cls, options |-> options,
                 exc |-> NewInstance(made.cls, <<"n">>, options, classes).exc,
                 inst |-> NewInstance(made.cls, <<"n">>, options, classes).inst]
  /\ UNCHANGED <<heap, ret, trees, specs, classes, made, lookup>>

\* the bodies of the sub-study classes
LeafDcts ==
  { Dct(<<DataSpec(NX, None)>>, <<OptionSpec(NOpt, <<"A">>)>>, {}, <<>>),
    Dct(<<DataSpec(NX, None), DataSpec(NY, Some(NPipe))>>,
        <<OptionSpec(NOpt, <<"B">>)>>, {NPipe}, <<>>),
    Dct(<<DataSpec(NX, None)>>, <<>>, {}, <<>>) }

\* sub-study specs of a composite: the first named s, a second named t or
\* once more s; the explicit map gives the option o the name q
OptionMaps == { <<>>, <<Pair(NOpt, NQ)>> }

SubsNamed(n, all) ==
  { SubStudySpec(n, c, m) : c \in Defined(all), m \in OptionMaps }

NestedSubLists(all) ==
  { <<>> } \cup { <<s>> : s \in SubsNamed(<<"s">>, all) }
  \cup { <<s, t>> : s \in SubsNamed(<<"s">>, all),
                    t \in SubsNamed(<<"t">>, all) \cup SubsNamed(<<"s">>, all) }

\* the bodies of the composite classes: nothing but the sub-study specs;
\* an option q; a data spec and a getter under translated names; a getter
\* under a translated name
CompositeDcts(all) ==
  { Dct(b[1], b[2], b[3], subs) :
      b \in { <<<<>>, <<>>, {}>>,
              <<<<>>, <<OptionSpec(NQ, <<"M">>)>>, {}>>,
              <<<<DataSpec(NSY, None)>>, <<>>, {NSP}>>,
              <<<<>>, <<>>, {NSP}>> },
      subs \in NestedSubLists(all) }

\* the sub-study classes are defined before the composites
DefineLeaf ==
  /\ \A c \in Defined(classes) : ~classes[c].is_multi
  /\ DefineStudyOf(MaxClasses + 1, OneBase({StudyId}), LeafDcts)

DefineComposite ==
  DefineMultiStudyOf(MaxClasses + 1,
                     OneBase({MultiStudyId} \cup {c \in Defined(classes) : classes[c].is_multi}),
                     CompositeDcts(classes))

\* --- instance specification: class statements, then one construction
NextInstance ==
  \/ DefineLeaf
  \/ DefineComposite
  \/ NewStudy

SpecInstance == InitCompose /\ [][NextInstance]_vars

\* --- prefix specification: composites whose sub-study names and spec
\* names have the separator in them; an explicit map may name s_x
NTX == <<"t", "_", "x">>
NST == <<"s", "_", "t">>

PrefixLeafDcts ==
  { Dct(<<DataSpec(NX, None)>>, <<>>, {}, <<>>),
    Dct(<<DataSpec(NTX, None)>>, <<>>, {}, <<>>),
    Dct(<<DataSpec(NX, None), DataSpec(NY, None)>>, <<>>, {}, <<>>) }

PrefixSubs(all) ==
  { SubStudySpec(n, c, m) :
      n \in {<<"s">>, NST, <<"t">>}, c \in Defined(all),
      m \in {<<>>, <<Pair(NY, NSX)>>} }

PrefixDcts(all) ==
  { Dct(<<>>, <<>>, {}, subs) :
      subs \in UNION { [1..k -> PrefixSubs(all)] : k \in 0..MaxSubs } }

DefinePrefixLeaf ==
  DefineStudyOf(MaxClasses + 1, OneBase({StudyId}), PrefixLeafDcts)

DefinePrefixComposite ==
  DefineMultiStudyOf(MaxClasses + 1, OneBase({MultiStudyId}), PrefixDcts(classes))

NextPrefix ==
  \/ DefinePrefixLeaf
  \/ DefinePrefixComposite

SpecPrefix == InitCompose /\ [][NextPrefix]_vars

\* --- the inputs and the data of an instance (study/base.py, study/multi.py)
MissingInputError == "NiAnalysisMissingInputError"
MissingDataException == "ArcanaMissingDataException"
NoRunRequired == "ArcanaNoRunRequiredException"
RuntimeError == "RuntimeError"

\* a selector given as an input: the name of the data spec it is for, what
\* it matches in the tree of the repository, the exception its bind raises
Selector(name, matches, bind_exc) ==
  [type |-> "match", name |-> name, matches |-> matches, bind_exc |-> bind_exc,
   study |-> <<>>]

\* spec.bind(study) of a derived data spec
BoundSpec(spec, study_name) ==
  [type |-> "spec", name |-> spec.name, matches |-> <<>>, bind_exc |-> "",
   study |-> study_name]

\* inpt.bind(study): the copy bound to the study; what is bound to the
\* study already is returned as it is
BoundTo(inpt, study_name) ==
  IF inpt.study = study_name THEN inpt ELSE [inpt EXCEPT !.study = study_name]

\* a key of a dict of inputs
Key(k) == [type |-> "str", name |-> k, matches |-> <<>>, bind_exc |-> "", study |-> <<>>]

\* the inputs argument: a list of selectors, or the dict a composite makes
ListArg(items) == [form |-> "list", items |-> items]
DictArg(items) == [form |-> "dict", items |-> items]

\* what `for inpt in inputs` goes through: the items of a list, the keys of
\* a dict
Iterated(arg) ==
  IF arg.form = "dict" THEN [i \in 1..Len(arg.items) |-> Key(arg.items[i].key)]
  ELSE arg.items

\* the instance with its inputs and bound specs, both empty at first
WithData(inst) ==
  [cls |-> inst.cls, name |-> inst.name, options |-> inst.options,
   sub_studies |-> inst.sub_studies, inputs |-> <<>>, bound_specs |-> <<>>]

RECURSIVE InputsLoop(_, _, _)
\* `for inpt in inputs` in Study.__init__: inpt.name of a str is an
\* attribute error
InputsLoop(inst, inputs, all) ==
  IF inputs = <<>> THEN Constructed(inst)
  ELSE IF Head(inputs).type = "str" THEN Raised(AttributeError)
  ELSE IF Head(inputs).name \notin Keys(all[inst.cls].data_specs) THEN Raised(NameError)
  ELSE IF Head(inputs).bind_exc # "" THEN Raised(Head(inputs).bind_exc)
  ELSE InputsLoop([inst EXCEPT !.inputs = DictSet(@, Head(inputs).name,
                                                  BoundTo(Head(inputs), inst.name))],
                  Tail(inputs), all)

NeverEnforced(spec, enforce_inputs) == FALSE

\* the missing input of an acquired spec is fatal
Enforced(spec, enforce_inputs) == ~spec.optional /\ enforce_inputs

RECURSIVE SpecsLoop(_, _, _)
\* `for spec in self.data_specs()` in Study.__init__
SpecsLoop(inst, data_specs, enforce_inputs) ==
  IF data_specs = <<>> THEN Constructed(inst)
  ELSE IF Head(data_specs).pipeline_name # None
  THEN SpecsLoop([inst EXCEPT !.bound_specs =
                    DictSet(@, Head(data_specs).name,
                            BoundSpec(Head(data_specs), inst.name))],
                 Tail(data_specs), enforce_inputs)
  ELSE IF Head(data_specs).name \notin Keys(inst.inputs)
          /\ Enforced(Head(data_specs), enforce_inputs)
  THEN Raised(MissingInputError)
  ELSE SpecsLoop(inst, Tail(data_specs), enforce_inputs)

\* Study.__init__ after the loop over the inputs
AfterInputs(r, enforce_inputs, all) ==
  IF r.exc # "" THEN r
  ELSE SpecsLoop(r.inst, Values(all[r.inst.cls].data_specs), enforce_inputs)

\* Study.__init__ after the loop over the options
AfterOptions(r, arg, enforce_inputs, all) ==
  IF r.exc # "" THEN r
  ELSE AfterInputs(InputsLoop(WithData(r.inst), Iterated(arg), all), enforce_inputs, all)

\* Study.__init__(name, repository, runner, inputs, options, enforce_inputs)
StudyInitData(c, name, arg, options, enforce_inputs, all) ==
  AfterOptions(StudyInit(c, name, options, all), arg, enforce_inputs, all)

NoInput == [type |-> "", name |-> <<>>, matches |-> <<>>, bind_exc |-> "", study |-> <<>>]

\* Study.bound_data_spec (self.spec in study/multi.py): the input of that
\* name, else the bound derived spec, else the missing data or the name
\* error
BoundDataSpec(inst, all, name) ==
  IF name \in Keys(inst.inputs) THEN [exc |-> "", out |-> DictGet(inst.inputs, name)]
  ELSE IF name \in Keys(inst.bound_specs)
  THEN [exc |-> "", out |-> DictGet(inst.bound_specs, name)]
  ELSE IF name \in Keys(all[inst.cls].data_specs)
  THEN [exc |-> MissingDataException, out |-> NoInput]
  ELSE [exc |-> NameError, out |-> NoInput]

\* try: inpt = self.spec(mapped_name) / except ArcanaMissingDataException:
\* pass / else: if inpt.derived: mapped_inputs[data_name] = inpt
AfterSpec(acc, data_name, r) ==
  IF r.exc = MissingDataException THEN acc
  ELSE IF r.exc # "" THEN [exc |-> r.exc, out |-> <<>>]
  ELSE IF r.out.type = "spec" THEN [exc |-> "", out |-> DictSet(acc.out, data_name, r.out)]
  ELSE acc

SetMappedInputNever(acc, inst, all, data_name, mapped_name) == acc

\* one turn of `for data_name in sub_study_cls.data_spec_names()`
SetMappedInput(acc, inst, all, data_name, mapped_name) ==
  IF acc.exc # "" THEN acc
  ELSE IF mapped_name \in Keys(inst.inputs)
  THEN [exc |-> "", out |-> DictSet(acc.out, data_name, DictGet(inst.inputs, mapped_name))]
  ELSE AfterSpec(acc, data_name, BoundDataSpec(inst, all, mapped_name))

RECURSIVE MappedInputs(_, _, _, _, _)
\* `for data_name in sub_study_cls.data_spec_names()`: [exc, out]
MappedInputs(inst, sub, names, all, acc) ==
  IF names = <<>> THEN acc
  ELSE MappedInputs(inst, sub, Tail(names), all,
         SetMappedInput(acc, inst, all, Head(names),
                        InverseMap(sub, Head(names), all).out))

\* a construction returns the instance or raises; the calls of sub-study
\* constructors it has made are kept with the inputs each was given
Outcome(exc, inst, calls) == [exc |-> exc, inst |-> inst, calls |-> calls]
Call(sub, cls, inputs) == [sub |-> sub, cls |-> cls, inputs |-> inputs]

RECURSIVE NewWithInputs(_, _, _, _, _, _)
RECURSIVE SubStudyInputsLoop(_, _, _, _)

\* the duplicate check and self._sub_studies[sub_study_spec.name] = sub_study
AfterSubStudyCall(inst, subs, all, calls, r) ==
  IF r.exc # "" THEN Outcome(r.exc, NoInst, calls \o r.calls)
  ELSE IF Head(subs).name \in Keys(inst.sub_studies)
  THEN Outcome(NameError, NoInst, calls \o r.calls)
  ELSE SubStudyInputsLoop([inst EXCEPT !.sub_studies = DictSet(@, Head(subs).name, r.inst)],
                          Tail(subs), all, calls \o r.calls)

\* sub_study_spec.study_class(name + '_' + sub_study_spec.name, repository,
\*   runner, mapped_inputs, options=mapped_options, enforce_inputs=False)
AfterMappedOptions(inst, subs, all, calls, inputs, options) ==
  IF options.exc # "" THEN Outcome(options.exc, NoInst, calls)
  ELSE AfterSubStudyCall(inst, subs, all,
         Append(calls, Call(Head(subs).name, Head(subs).study_class, inputs)),
         NewWithInputs(Head(subs).study_class, inst.name \o <<"_">> \o Head(subs).name,
                       DictArg(inputs), options.out, FALSE, all))

AfterMappedInputs(inst, subs, all, calls, inputs) ==
  IF inputs.exc # "" THEN Outcome(inputs.exc, NoInst, calls)
  ELSE AfterMappedOptions(inst, subs, all, calls, inputs.out,
         MappedOptions(inst, Head(subs),
                       KeysSeq(all[Head(subs).study_class].option_specs), all,
                       [exc |-> "", out |-> <<>>]))

\* `for sub_study_spec in self.sub_study_specs()` in MultiStudy.__init__
SubStudyInputsLoop(inst, subs, all, calls) ==
  IF subs = <<>> THEN Outcome("", inst, calls)
  ELSE AfterMappedInputs(inst, subs, all, calls,
         MappedInputs(inst, Head(subs),
                      KeysSeq(all[Head(subs).study_class].data_specs), all,
                      [exc |-> "", out |-> <<>>]))

\* MultiStudy.__init__ once Study.__init__ has returned or raised
AfterStudyInitData(r, all) ==
  IF r.exc # "" THEN Outcome(r.exc, NoInst, <<>>)
  ELSE IF all[r.inst.cls].is_multi
  THEN SubStudyInputsLoop(r.inst, Values(all[r.inst.cls].sub_study_specs), all, <<>>)
  ELSE Outcome("", r.inst, <<>>)

\* cls(name, repository, runner, inputs, options, enforce_inputs=...)
NewWithInputs(c, name, arg, options, enforce_inputs, all) ==
  AfterStudyInitData(StudyInitData(c, name, arg, options, enforce_inputs, all), all)

\* the events of one call of Study.data, its exception and what it returns
Resolved(exc, out, events) == [exc |-> exc, out |-> out, events |-> events]

\* `if not data: raise NiAnalysisUsageError` and `data = list(data)`; the
\* chain of a derived spec is never false
Returned(data, events, is_chain) ==
  IF data = <<>> /\ ~is_chain THEN Resolved(UsageError, <<>>, events)
  ELSE Resolved("", data, events)

CaughtAll(exc) == TRUE

\* the except clause around self.runner.run(spec.pipeline(), ...)
Caught(exc) == exc = NoRunRequired

\* self.runner.run(...) has returned or raised: the data of the spec in
\* the tree is collected
AfterRun(run, existing, events) ==
  IF run # "" /\ ~Caught(run) THEN Resolved(run, <<>>, events)
  ELSE Returned(existing, events, TRUE)

\* spec.pipeline() has returned or raised
AfterPipeline(build, run, existing) ==
  IF build # "" THEN Resolved(build, <<>>, <<"pipeline">>)
  ELSE AfterRun(run, existing, <<"pipeline", "run">>)

AfterBoundSpecPipelineFirst(spec, build, run, existing) ==
  IF spec.exc # "" THEN Resolved(spec.exc, <<>>, <<>>)
  ELSE AfterPipeline(build, run, existing)

\* Study.data once bound_data_spec has returned or raised
AfterBoundSpec(spec, build, run, existing) ==
  IF spec.exc # "" THEN Resolved(spec.exc, <<>>, <<>>)
  ELSE IF spec.out.type = "match" THEN Returned(spec.out.matches, <<>>, FALSE)
  ELSE AfterPipeline(build, run, existing)

\* Study.data(name): build and run are what spec.pipeline() and the runner
\* raise if they are called, existing the items of the spec in the tree
Data(inst, all, name, build, run, existing) ==
  AfterBoundSpec(BoundDataSpec(inst, all, name), build, run, existing)

NZ == <<"z">>
NW == <<"w">>
NSZ == <<"s", "_", "z">>
NBogus == <<"b">>

\* the bodies of the sub-study classes
DataLeafDcts ==
  { Dct(<<DataSpec(NX, None), DataSpec(NY, Some(NPipe))>>, <<>>, {NPipe}, <<>>),
    Dct(<<DataSpec(NX, None), OptionalDataSpec(NZ)>>, <<>>, {}, <<>>),
    Dct(<<DataSpec(NX, None)>>, <<OptionSpec(NOpt, <<"A">>)>>, {}, <<>>) }

\* sub-study specs: the acquired spec x is left to the prefix, or mapped to
\* the derived spec w or to the option q of the composite
DataSubs(all) ==
  { SubStudySpec(n, c, m) :
      n \in SubNames, c \in {c \in Defined(all) : ~all[c].is_multi},
      m \in {<<>>, <<Pair(NX, NW)>>, <<Pair(NX, NQ)>>} }

DataSubLists(all) ==
  { <<s>> : s \in DataSubs(all) } \cup
  { <<s, t>> : s \in {d \in DataSubs(all) : d.name = <<"s">>},
               t \in {d \in DataSubs(all) : d.name = <<"t">> /\ d.name_map = <<>>} }

\* the bodies of the composite classes
DataCompositeDcts(all) ==
  { Dct(<<DataSpec(NW, Some(NPipe))>>, <<OptionSpec(NQ, <<"M">>)>>, {NPipe}, subs) :
      subs \in DataSubLists(all) }

DefineDataLeaf ==
  /\ \A c \in Defined(classes) : ~classes[c].is_multi
  /\ DefineStudyOf(MaxClasses, OneBase({StudyId}), DataLeafDcts)

DefineDataComposite ==
  DefineMultiStudyOf(MaxClasses + 1, OneBase({MultiStudyId}), DataCompositeDcts(classes))

\* the selectors a caller gives
Selectors ==
  { Selector(NX, <<"m1">>, ""), Selector(NX, <<>>, ""), Selector(NX, <<>>, MissingMatchError),
    Selector(NY, <<"m2">>, ""), Selector(NSX, <<"m3">>, ""), Selector(NSZ, <<"m4">>, ""),
    Selector(NBogus, <<"m5">>, "") }

SuppliedInputs ==
  { <<>> } \cup { <<a>> : a \in Selectors }
  \cup { <<a, b>> : a \in {Selector(NX, <<"m1">>, ""), Selector(NSX, <<"m3">>, "")},
                    b \in {Selector(NY, <<"m2">>, ""), Selector(NSZ, <<"m4">>, ""),
                           Selector(NBogus, <<"m5">>, "")} }

SuppliedOptions == { <<>>, <<[key |-> NBogus, value |-> Scalar("Z")]>> }

\* study = C('n', repository, runner, inputs, options, enforce_inputs=e)
\* for the class defined last
NewStudyWithInputs ==
  /\ made.cls > 0 /\ Importing
  /\ \E inputs \in SuppliedInputs, options \in SuppliedOptions, e \in BOOLEAN :
       study' = [op |-> "new", cls |-> made.cls, options |-> options,
                 inputs |-> inputs, enforce_inputs |-> e,
                 exc |-> NewWithInputs(made.cls, <<"n">>, ListArg(inputs), options, e,
                                       classes).exc,
                 inst |-> NewWithInputs(made.cls, <<"n">>, ListArg(inputs), options, e,
                                        classes).inst,
                 calls |-> NewWithInputs(made.cls, <<"n">>, ListArg(inputs), options, e,
                                         classes).calls,
                 name |-> <<>>, build |-> "", run |-> "", existing |-> <<>>,
                 out |-> <<>>, events |-> <<>>, data_exc |-> ""]
  /\ UNCHANGED <<heap, ret, trees, specs, classes, made, lookup>>

DataNamesAsked == {NX, NY, NW, NSX, <<"s", "_", "y">>, NBogus}

\* study.data(name) on the instance constructed
DataCall ==
  /\ study.op = "new" /\ study.exc = ""
  /\ \E name \in DataNamesAsked, build \in {"", RuntimeError},
        run \in {"", NoRunRequired, RuntimeError}, existing \in {<<>>, <<"d1">>} :
       study' = [study EXCEPT
                   !.op = "data", !.name = name, !.build = build, !.run = run,
                   !.existing = existing,
                   !.out = Data(study.inst, classes, name, build, run, existing).out,
                   !.events = Data(study.inst, classes, name, build, run, existing).events,
                   !.data_exc = Data(study.inst, classes, name, build, run, existing).exc]
  /\ UNCHANGED <<heap, ret, trees, specs, classes, made, lookup>>

\* --- data specification: class statements, one construction with inputs,
\* one call of data
NextData ==
  \/ DefineDataLeaf
  \/ DefineDataComposite
  \/ NewStudyWithInputs
  \/ DataCall

SpecData == InitCompose /\ [][NextData]_vars

\* ================================================================ claims
\* --------------------------------------------------------------- helpers
\* the selector a bind call was made on
Receiver == heap[ret.self]

\* a bind call on an object of the heap has just returned or raised
BindReturned == ret.op = "bind" /\ ret.self \in 1..Len(heap)

\* the (subject, visit) ids of the nodes of a frequency in enumeration
\* order, read off the shape of the tree
ExpectedIds(tree, frequency) ==
  IF frequency = "per_session"
  THEN [i \in 1..(Len(tree.subjects) * Len(tree.visits)) |->
          <<Some(((i - 1) \div Len(tree.visits)) + 1),
            Some(((i - 1) % Len(tree.visits)) + 1)>>]
  ELSE IF frequency = "per_subject"
  THEN [s \in 1..Len(tree.subjects) |-> <<Some(s), None>>]
  ELSE IF frequency = "per_visit"
  THEN [v \in 1..Len(tree.visits) |-> <<None, Some(v)>>]
  ELSE << <<None, None>> >>

IdsOf(seq) == [i \in 1..Len(seq) |-> <<seq[i].subject_id, seq[i].visit_id>>]

\* the candidates of a log entry: what filtering left, restricted to the
\* selector's provenance
Candidates(e, sel) ==
  SelectSeq(e.filtered.matches, LAMBDA d : d.from_analysis = sel.from_analysis)

\* ------------------------------------------------------------------- C1
\* C1: bind on a selector that is already bound to the same analysis
\* returns that very object: no copy is made, no object changes, no match
\* is run and no repository is entered.
C1_IdempotentBind ==
  [][(ret'.op = "bind" /\ ret'.self \in 1..Len(heap)
        /\ heap[ret'.self].analysis = Some(ret'.analysis))
     => /\ ret'.exc = ""
        /\ ret'.obj = ret'.self
        /\ heap' = heap
        /\ ~ret'.matched
        /\ ret'.trace = <<>>]_vars

C1_Witness ==
  /\ BindReturned
  /\ Receiver.analysis = Some(ret.analysis)
  /\ Receiver.slice # None
  /\ ret.obj = ret.self
  /\ ~ret.matched

\* ------------------------------------------------------------------- C2
\* the slice of `copy` is the one matching gives on the tree of dataset ds
SliceMatchedOn(copy, ds, analysis, allTrees, allSpecs) ==
  /\ Match([copy EXCEPT !.slice = None], allTrees[ds],
           SpecValidFormats(allSpecs[analysis], copy)).exc = ""
  /\ copy.slice =
       Some(Slice(copy,
                  Match([copy EXCEPT !.slice = None], allTrees[ds],
                        SpecValidFormats(allSpecs[analysis], copy)).items))

\* no step changes an object that exists
ObjectsKept ==
  \A o \in 1..Len(heap) : Len(heap') >= o /\ heap'[o] = heap[o]

\* a bind on an unbound selector has returned normally
TemplateBound ==
  /\ ret'.op = "bind" /\ ret'.exc = ""
  /\ ret'.self \in 1..Len(heap)
  /\ heap[ret'.self].analysis = None

\* C2: a bind on an unbound template that returns gives a new object, bound
\* to the analysis, and leaves every existing object (the template and the
\* copies bound before) as it was; the copy holds the slice matched on the
\* tree of the template's own dataset when the template was given one, and
\* on the tree of its analysis's dataset otherwise.
C2_TemplatePurity ==
  [][/\ ObjectsKept
     /\ TemplateBound =>
          /\ ret'.obj = Len(heap) + 1
          /\ Len(heap') = Len(heap) + 1
          /\ heap'[ret'.obj].analysis = Some(ret'.analysis)
          /\ SliceMatchedOn(heap'[ret'.obj],
                            IF heap[ret'.self].dataset = None
                            THEN AnalysisDataset(ret'.analysis)
                            ELSE Val(heap[ret'.self].dataset),
                            ret'.analysis, trees, specs)]_vars

\* the template bound to the two analyses, the two copies holding
\* different slices
C2_Witness ==
  /\ BindReturned /\ ret.self = 1 /\ ret.obj = 3
  /\ heap[1].analysis = None /\ heap[1].slice = None /\ heap[1].dataset = None
  /\ heap[2].analysis = Some("A1") /\ heap[3].analysis = Some("A2")
  /\ Val(heap[2].slice).items # <<>> /\ Val(heap[3].slice).items # <<>>
  /\ heap[2].slice # heap[3].slice

\* C2 as stated: the copy's slice is always the one matched on the tree of
\* its own analysis.
C2_AsStated ==
  [][/\ ObjectsKept
     /\ TemplateBound =>
          /\ ret'.obj = Len(heap) + 1
          /\ Len(heap') = Len(heap) + 1
          /\ heap'[ret'.obj].analysis = Some(ret'.analysis)
          /\ SliceMatchedOn(heap'[ret'.obj], AnalysisDataset(ret'.analysis),
                            ret'.analysis, trees, specs)]_vars

\* ------------------------------------------------------------------- C3
\* C3: a constructor called with both skip_missing and fallback_to_default
\* raises the usage error, and no object results.
C3_FlagsExclusive ==
  (ret.op = "init" /\ ret.ctor.skip_missing /\ ret.ctor.fallback_to_default)
    => (ret.exc = UsageError /\ heap = <<>> /\ ret.obj = 0)

\* ------------------------------------------------------------------- C8
\* the spec can stand in for a missing match: it is derived or has a default
CanFallBack(spec) == spec.derived \/ spec.default # None

\* C8: bind on a selector with fallback_to_default raises the usage error,
\* before any match, exactly when the spec is neither derived nor has a
\* default; otherwise the copy keeps the spec bound to the analysis as its
\* fallback and is derivable exactly when the spec is derived.
C8_FallbackCheck ==
  (BindReturned /\ Receiver.fallback_to_default
     /\ Receiver.analysis # Some(ret.analysis))
    => /\ (ret.exc = UsageError /\ ~ret.matched) <=> ~CanFallBack(specs[ret.analysis])
       /\ ret.exc = "" =>
            /\ heap[ret.obj].fallback =
                 Some(SpecBind(specs[ret.analysis], ret.analysis))
            /\ heap[ret.obj].derivable = specs[ret.analysis].derived

\* ------------------------------------------------------------------- C4
\* what C4 says match_node gives at a log entry
SelectionAsStated(e, sel, cands) ==
  IF sel.order # None
  THEN IF Val(sel.order) >= 0 /\ Val(sel.order) < Len(cands)
       THEN e.exc = "" /\ e.item = cands[Val(sel.order) + 1]
       ELSE IF Val(sel.order) < 0 /\ 0 - Val(sel.order) <= Len(cands)
       THEN e.exc = "" /\ e.item = cands[Len(cands) + Val(sel.order) + 1]
       ELSE e.exc = MissingMatchError
  ELSE IF Len(cands) = 1 THEN e.exc = "" /\ e.item = cands[1]
  ELSE IF Len(cands) = 0 THEN e.exc = MissingMatchError
  ELSE e.exc = InputError

NoCandidate(e, sel) ==
  IF e.filtered.exc = ""
  THEN \/ Len(Candidates(e, sel)) = 0
       \/ sel.order # None /\ ~PyInRange(Candidates(e, sel), Val(sel.order))
  ELSE e.filtered.exc # UsageError

IsPlaceholderFor(item, e, sel) ==
  /\ item.src = "placeholder" /\ ~item.exists
  /\ item.name = sel.name /\ item.frequency = sel.frequency
  /\ item.from_analysis = sel.from_analysis
  /\ item.subject_id = e.subject_id /\ item.visit_id = e.visit_id

\* C5: at every node where no candidate survives, the fallback's item for
\* the node is used if the selector has a fallback; else, with
\* skip_missing, a placeholder marked as not existing that carries the
\* selector's name, frequency and provenance and the node's ids; else the
\* missing-match error is recorded for the node.
C5_MissingPolicy ==
  (BindReturned /\ ret.matched)
    => \A i \in 1..Len(ret.match.log) :
         NoCandidate(ret.match.log[i], heap[1])
           => IF heap[1].fallback_to_default
              THEN /\ ret.match.log[i].out.kind = "item"
                   /\ ret.match.log[i].out.item.src = "fallback"
                   /\ ret.match.log[i].out.item.subject_id = ret.match.log[i].subject_id
                   /\ ret.match.log[i].out.item.visit_id = ret.match.log[i].visit_id
              ELSE IF heap[1].skip_missing
              THEN /\ ret.match.log[i].out.kind = "item"
                   /\ IsPlaceholderFor(ret.match.log[i].out.item,
                                       ret.match.log[i], heap[1])
              ELSE /\ ret.match.log[i].out.kind = "error"
                   /\ ret.match.log[i].out.exc = MissingMatchError

\* ------------------------------------------------------------------- C6
\* the loop of _match was entered (match did not refuse its arguments)
LoopEntered == BindReturned /\ ret.matched /\ Len(ret.match.log) > 0

\* the selector's tag filter, if it has one, comes with the one format it
\* needs (a tag filter without it raises the usage error)
TagsUsable(sel) ==
  sel.dicom_tags = None \/ (sel.valid_formats # None /\ Len(Val(sel.valid_formats)) = 1)

\* the errors of the nodes that failed, in node order
FailuresOf(log) ==
  [i \in 1..Len(SelectSeq(log, LAMBDA e : e.out.kind # "item")) |->
     [exc |-> SelectSeq(log, LAMBDA e : e.out.kind # "item")[i].exc,
      subject_id |-> SelectSeq(log, LAMBDA e : e.out.kind # "item")[i].subject_id,
      visit_id |-> SelectSeq(log, LAMBDA e : e.out.kind # "item")[i].visit_id]]

\* C6: match visits every node of the selector's frequency, also after
\* nodes have failed, collects one error per failing node in node order,
\* and raises once at the end: the missing-match error if every collected
\* error is one, the general input error otherwise, nothing if no node
\* failed.  (Stated for selectors whose tag filter is usable.)
C6_Aggregation ==
  (LoopEntered /\ TagsUsable(heap[1]))
    => /\ IdsOf(ret.match.log) = ExpectedIds(trees.D1, heap[1].frequency)
       /\ ret.match.errors = FailuresOf(ret.match.log)
       /\ ret.exc =
            IF ret.match.errors = <<>> THEN ""
            ELSE IF \A i \in 1..Len(ret.match.errors) :
                      ret.match.errors[i].exc = MissingMatchError
            THEN MissingMatchError
            ELSE InputError

\* ------------------------------------------------------------------- C7
\* C7: a match that succeeds gives a slice with exactly one item per node
\* of the selector's frequency, in node order.
C7_OneItemPerNode ==
  (BindReturned /\ ret.matched /\ ret.exc = "")
    => IdsOf(Val(heap[ret.obj].slice).items)
         = ExpectedIds(trees.D1, heap[1].frequency)

\* a per-session selector on a tree of two sessions, each holding one
\* matching item
C7_Witness ==
  /\ BindReturned /\ ret.matched /\ ret.exc = ""
  /\ heap[1].frequency = "per_session"
  /\ Len(Val(heap[ret.obj].slice).items) = 2
  /\ \A i \in 1..2 : Val(heap[ret.obj].slice).items[i].src = "tree"
  /\ Len(trees.D1.subjects) = 2

\* ------------------------------------------------------------------- C9
Bijections(n) ==
  {f \in [1..n -> 1..n] : \A i, j \in 1..n : f[i] = f[j] => i = j}

\* the node with its items in the order f
Permuted(node, f) ==
  [node EXCEPT !.filesets = [i \in 1..Len(node.filesets) |-> node.filesets[f[i]]],
               !.fields = [i \in 1..Len(node.fields) |-> node.fields[f[i]]]]

\* the formats the bind of the template passes down to match_node
TemplateFormats ==
  IF heap[1].cls = "FilesetFilter" /\ heap[1].valid_formats # None
  THEN heap[1].valid_formats
  ELSE SpecValidFormats(specs["A1"], heap[1])

\* exactly one candidate survives at the node
OneSurvivor(sel, node, valid_formats) ==
  /\ FilteredMatches(sel, node, valid_formats).exc = ""
  /\ Len(SelectSeq(FilteredMatches(sel, node, valid_formats).matches,
                   LAMBDA d : d.from_analysis = sel.from_analysis)) = 1

C9_WitnessTwice ==
  /\ Len(heap) = 3 /\ heap[1].order # None
  /\ Val(heap[3].slice).items # <<>>

\* ------------------------------------------------------------------ C10
\* every explicit pair of the sub-component spec names a spec of the
\* sub-study class and a spec of the composite class
Resolves(sub, cls) ==
  \A i \in 1..Len(sub.name_map) :
    /\ sub.name_map[i].local \in SpecNames(classes[sub.study_class])
    /\ sub.name_map[i].global \in SpecNames(cls)

\* C10: a composite class statement fails with the usage error whenever an
\* explicit name-map entry of one of its sub-component specs names a local
\* name that is no spec of the sub-study class or a global name that is no
\* spec of the composite class after generation: every composite class
\* there is has only sub-component specs whose explicit names resolve, and
\* a class statement fails with nothing but the usage error.
C10_FailFast ==
  /\ made.exc \in {"", UsageError}
  /\ \A c \in 1..Len(classes) :
       classes[c].is_multi =>
         \A i \in 1..Len(classes[c].add_sub_study_specs) :
           Resolves(classes[c].add_sub_study_specs[i], classes[c])

\* the same for the sub-component specs the registry of the class keeps
\* (the declared ones that no later one of the same name replaced, and the
\* inherited ones)
RegistryResolves ==
  /\ made.exc \in {"", UsageError}
  /\ \A c \in 1..Len(classes) :
       classes[c].is_multi =>
         \A i \in 1..Len(classes[c].sub_study_specs) :
           Resolves(classes[c].sub_study_specs[i].value, classes[c])

\* a composite with an explicit map was created, and one with a dangling
\* name was refused
ExplicitMapAccepted ==
  /\ made.op = "multi" /\ made.exc = ""
  /\ \E i \in 1..Len(classes[made.cls].sub_study_specs) :
       classes[made.cls].sub_study_specs[i].value.name_map # <<>>

DanglingRefused ==
  /\ made.op = "multi" /\ made.exc = UsageError
  /\ Len(made.dct.add_sub_study_specs) = 1
  /\ made.dct.add_sub_study_specs[1].name_map = <<Pair(NX, NH)>>
  /\ made.bases = <<MultiStudyId>>

\* ------------------------------------------------------------------ C11
\* the sub-study spec the lookup was made on, and its sub-study class
LookupSub == classes[lookup.cls].sub_study_specs[lookup.sub].value
LookupLocals == SpecNames(classes[LookupSub.study_class])

\* the lookup was made with the name the lookup before it returned
Chained(first, second) ==
  /\ lookup.fn = second /\ lookup.prev.fn = first /\ lookup.prev.exc = ""

\* C11: name translation round-trips.  Without an explicit map a spec name
\* x of the sub-study translates to <name>_x (inverse_map, and map of the
\* sub-analysis version) and <name>_x translates back to x; with or
\* without an explicit map, map(inverse_map(x)) = x for every spec name x of
\* the sub-study class, and inverse_map(map(g)) = g for every spec name g
\* of the composite class that map accepts.
C11_RoundTrip ==
  /\ (lookup.fn \in {"inverse_map", "subcomp_map"} /\ LookupSub.name_map = <<>>
        /\ lookup.arg \in LookupLocals)
       => lookup.exc = "" /\ lookup.out = LookupSub.name \o <<"_">> \o lookup.arg
  /\ (Chained("inverse_map", "map") /\ lookup.prev.arg \in LookupLocals)
       => lookup.exc = "" /\ lookup.out = lookup.prev.arg
  /\ (Chained("map", "inverse_map") /\ lookup.prev.arg \in SpecNames(classes[lookup.cls]))
       => lookup.exc = "" /\ lookup.out = lookup.prev.arg

\* the round trips for a spec without an explicit map
RoundTripPrefixed ==
  (lookup.fn # "" /\ lookup.prev.fn # "" /\ LookupSub.name_map = <<>>) =>
    /\ (Chained("inverse_map", "map") /\ lookup.prev.arg \in LookupLocals)
         => lookup.exc = "" /\ lookup.out = lookup.prev.arg
    /\ Chained("map", "inverse_map")
         => lookup.exc = "" /\ lookup.out = lookup.prev.arg

\* a round trip through an explicit map entry came back to the name it
\* started from
RoundTripMapped ==
  /\ Chained("map", "inverse_map") /\ lookup.exc = ""
  /\ lookup.prev.arg \in GlobalKeys(LookupSub)
  /\ lookup.out = lookup.prev.arg

\* ------------------------------------------------------------------ C12
\* the composite classes the class statements created
Composites == {c \in 1..Len(classes) : c > MultiStudyId /\ classes[c].is_multi}

\* the sub-component specs in the registry of class c
SubsOf(c) ==
  {classes[c].sub_study_specs[i].value : i \in 1..Len(classes[c].sub_study_specs)}

\* the names of the specs of one kind in the registry of a class
KindNames(cls, kind) ==
  IF kind = "data" THEN Keys(cls.data_specs) ELSE Keys(cls.option_specs)

\* the specs of the sub-study class of a sub-component spec
LocalSpecs(sub) ==
  {classes[sub.study_class].data_specs[i].value :
     i \in 1..Len(classes[sub.study_class].data_specs)}
  \cup {classes[sub.study_class].option_specs[i].value :
          i \in 1..Len(classes[sub.study_class].option_specs)}

\* a spec named in the explicit map has no prefixed spec generated for it
MappedNotGenerated ==
  \A c \in Composites : \A sub \in SubsOf(c) : \A spec \in LocalSpecs(sub) :
    spec.name \in MappedLocals(sub) =>
      ApplyPrefix(sub, spec.name) \notin classes[c].generated

\* a spec not named in the explicit map is in the registry of the composite
\* under the prefixed name, as a spec of the same kind
UnmappedPrefixed ==
  \A c \in Composites : \A sub \in SubsOf(c) : \A spec \in LocalSpecs(sub) :
    spec.name \notin MappedLocals(sub) =>
      ApplyPrefix(sub, spec.name) \in KindNames(classes[c], spec.kind)

\* the names in the sub-study class that the name_map view translates
ViewLocals(sub) ==
  IF KeyedByGlobal(sub)
  THEN {NameMapView(sub, classes)[i].value : i \in 1..Len(NameMapView(sub, classes))}
  ELSE Keys(SubCompNameMapView(sub, classes))

\* the name_map view covers every spec of the sub-study class
ViewCovers ==
  \A c \in Composites : \A sub \in SubsOf(c) : \A spec \in LocalSpecs(sub) :
    spec.name \in ViewLocals(sub)

ViewCoversData ==
  \A c \in Composites : \A sub \in SubsOf(c) : \A spec \in LocalSpecs(sub) :
    (spec.kind = "data" \/ spec.name \in MappedLocals(sub)) => spec.name \in ViewLocals(sub)

ValueOf(d, k) == CHOOSE i \in 1..Len(d) : d[i].key = k

\* the entry of the last spec named n in a list of declared specs
LastNamed(add_specs, n) ==
  add_specs[CHOOSE i \in 1..Len(add_specs) :
              /\ add_specs[i].name = n
              /\ \A j \in (i + 1)..Len(add_specs) : add_specs[j].name # n]

NamesIn(add_specs) == {add_specs[i].name : i \in 1..Len(add_specs)}

\* `registry` is `inherited` overlaid with the declared specs
Overlaid(registry, inherited, add_specs) ==
  /\ Keys(registry) = Keys(inherited) \cup NamesIn(add_specs)
  /\ \A n \in Keys(registry) :
       registry[ValueOf(registry, n)].value =
         IF n \in NamesIn(add_specs) THEN LastNamed(add_specs, n)
         ELSE inherited[ValueOf(inherited, n)].value

\* a class statement with the plain metaclass and one base has just returned
PlainMade == made.op = "study" /\ made.exc = "" /\ Len(made.bases) = 1

RegistryOverlaid ==
  PlainMade =>
    /\ Overlaid(classes[made.cls].data_specs, classes[made.bases[1]].data_specs,
                made.dct.add_data_specs)
    /\ Overlaid(classes[made.cls].option_specs, classes[made.bases[1]].option_specs,
                made.dct.add_option_specs)

\* C13: the registry of a class is the registry of its base overlaid with
\* the class's own add_data_specs / add_option_specs keyed by name, an own
\* entry replacing an inherited one of the same name, and no step changes
\* a class that exists already (the registry of the base stays as it was).
C13_Overlay ==
  [][ /\ \A c \in 1..Len(classes) : Len(classes') >= c /\ classes'[c] = classes[c]
      /\ RegistryOverlaid' ]_vars

\* a subclass that replaces an inherited option spec by its own, inherits a
\* data spec and adds one
C13_Witness ==
  /\ PlainMade
  /\ \E n \in Keys(classes[made.bases[1]].option_specs) :
       /\ n \in NamesIn(made.dct.add_option_specs)
       /\ classes[made.bases[1]].option_specs[ValueOf(classes[made.bases[1]].option_specs, n)].value
            # classes[made.cls].option_specs[ValueOf(classes[made.cls].option_specs, n)].value
  /\ Keys(classes[made.bases[1]].data_specs) \ NamesIn(made.dct.add_data_specs) # {}
  /\ NamesIn(made.dct.add_data_specs) \ Keys(classes[made.bases[1]].data_specs) # {}

\* ------------------------------------------------------------------ C14
\* a class statement with two bases has just returned
TwoBasesMade == made.exc = "" /\ made.cls > 0 /\ Len(made.bases) = 2

\* the entry named n of the registry that base b of the class statement has
\* in `registry` and the class statement does not redeclare, is in the
\* class's registry
TakenFrom(registry_of_cls, registry_of_base, n) ==
  registry_of_cls[ValueOf(registry_of_cls, n)].value
    = registry_of_base[ValueOf(registry_of_base, n)].value

\* for each kind of registry, the names both bases carry and the class
\* statement does not redeclare are taken from base `b` of the two
PrecedenceOf(b) ==
  /\ \A n \in (Keys(classes[made.bases[1]].data_specs)
                \cap Keys(classes[made.bases[2]].data_specs))
               \ NamesIn(made.dct.add_data_specs) :
       TakenFrom(classes[made.cls].data_specs, classes[made.bases[b]].data_specs, n)
  /\ \A n \in (Keys(classes[made.bases[1]].option_specs)
                \cap Keys(classes[made.bases[2]].option_specs))
               \ NamesIn(made.dct.add_option_specs) :
       TakenFrom(classes[made.cls].option_specs, classes[made.bases[b]].option_specs, n)
  /\ \A n \in (Keys(classes[made.bases[1]].sub_study_specs)
                \cap Keys(classes[made.bases[2]].sub_study_specs))
               \ NamesIn(made.dct.add_sub_study_specs) :
       TakenFrom(classes[made.cls].sub_study_specs,
                 classes[made.bases[b]].sub_study_specs, n)

\* C14 as stated: when several bases carry a spec of the same name and the
\* class does not redeclare it, the spec of the base declared later in the
\* base list is the one in the merged registry.
C14_LaterBaseWins == TwoBasesMade => PrecedenceOf(2)

\* C14 as amended: the spec of the base declared earlier in the base list
\* is the one in the merged registry.
C14_EarlierBaseWins == TwoBasesMade => PrecedenceOf(1)

\* two bases carry different data specs, different option specs and
\* different sub-component specs of the same name
DiffersIn(r1, r2) ==
  \E n \in Keys(r1) \cap Keys(r2) : r1[ValueOf(r1, n)].value # r2[ValueOf(r2, n)].value

C14_Witness ==
  /\ TwoBasesMade /\ made.dct = EmptyDct
  /\ DiffersIn(classes[made.bases[1]].data_specs, classes[made.bases[2]].data_specs)
  /\ DiffersIn(classes[made.bases[1]].option_specs, classes[made.bases[2]].option_specs)

C14_WitnessSubs ==
  /\ TwoBasesMade /\ made.dct = EmptyDct
  /\ DiffersIn(classes[made.bases[1]].sub_study_specs,
               classes[made.bases[2]].sub_study_specs)

\* ------------------------------------------------------------------ C15
\* a derived data spec of the class body names a pipeline constructor that
\* neither the class body nor any base has
OwnPipelineAbsent ==
  \E i \in 1..Len(made.dct.add_data_specs) :
    /\ made.dct.add_data_specs[i].pipeline_name # None
    /\ Val(made.dct.add_data_specs[i].pipeline_name) \notin made.dct.methods
    /\ \A b \in 1..Len(made.bases) :
         Val(made.dct.add_data_specs[i].pipeline_name) \notin classes[made.bases[b]].attrs

\* the class statement names a base of the kind its metaclass asks for (the
\* usage error for the bases comes first)
HasStudyBase ==
  \E b \in 1..Len(made.bases) :
    IF made.op = "multi" THEN classes[made.bases[b]].is_multi
    ELSE classes[made.bases[b]].is_study

\* every derived data spec in the registry of class c names an attribute of c
PipelinesPresent(c) ==
  \A i \in 1..Len(classes[c].data_specs) :
    classes[c].data_specs[i].value.pipeline_name # None =>
      Val(classes[c].data_specs[i].value.pipeline_name) \in classes[c].attrs

\* C15: a class statement whose body declares a derived data spec with a
\* pipeline constructor name that is absent from the class body and its
\* bases raises the usage error, whose message names such a spec and its
\* constructor; and in every class created, plain or
\* composite, every derived data spec of the registry (declared, inherited
\* or generated) names a pipeline constructor that is an attribute of the
\* class.
C15_PipelinePresent ==
  /\ (made.op # "" /\ OwnPipelineAbsent /\ HasStudyBase) =>
       /\ made.exc = UsageError
       /\ \E i \in 1..Len(made.dct.add_data_specs) :
            /\ made.dct.add_data_specs[i].pipeline_name # None
            /\ made.msg = <<made.dct.add_data_specs[i].name,
                            Val(made.dct.add_data_specs[i].pipeline_name)>>
            /\ made.msg[2] \notin made.dct.methods
  /\ \A c \in 1..Len(classes) : PipelinesPresent(c)

\* a composite was created with a generated derived spec and its generated
\* constructor
C15_Witness ==
  /\ made.op = "multi" /\ made.exc = ""
  /\ classes[made.cls].auto_added # {}
  /\ \E i \in 1..Len(classes[made.cls].data_specs) :
       /\ classes[made.cls].data_specs[i].value.pipeline_name # None
       /\ Val(classes[made.cls].data_specs[i].value.pipeline_name)
            \in classes[made.cls].auto_added

\* a class statement was refused for a missing pipeline constructor
PipelineRefused ==
  made.op = "study" /\ OwnPipelineAbsent /\ made.exc = UsageError /\ made.msg = <<NY, NPipe>>

\* ------------------------------------------------------------------ C16
\* the names that are both a data spec name and an option spec name of class c
Clashes(c) == Keys(classes[c].data_specs) \cap Keys(classes[c].option_specs)

\* the data / option spec names a class statement merges: those of the
\* registries of its bases and those its body declares
MergedDataNames ==
  UNION {Keys(classes[made.bases[b]].data_specs) : b \in 1..Len(made.bases)}
  \cup NamesIn(made.dct.add_data_specs)
MergedOptionNames ==
  UNION {Keys(classes[made.bases[b]].option_specs) : b \in 1..Len(made.bases)}
  \cup NamesIn(made.dct.add_option_specs)

\* C16: a class statement that merges a name as a data spec name and as an
\* option spec name (from its body, its bases or one of each) raises the
\* usage error, and no class there is has a name that is both a data spec
\* name and an option spec name in its registry.
C16_NoClash ==
  /\ (made.op # "" /\ MergedDataNames \cap MergedOptionNames # {})
       => made.exc = UsageError
  /\ \A c \in 1..Len(classes) : Clashes(c) = {}

\* the check of the base metaclass: the class statement part of C16
ClashRefused ==
  (made.op # "" /\ MergedDataNames \cap MergedOptionNames # {}) => made.exc = UsageError

\* a class statement was refused for a clash between its own declarations,
\* and one for a clash between a base's and its own
OwnClashRefused ==
  /\ made.op = "study" /\ made.exc = UsageError /\ made.bases = <<StudyId>>
  /\ NamesIn(made.dct.add_data_specs) \cap NamesIn(made.dct.add_option_specs) # {}

\* ------------------------------------------------------------------ C18
\* the spec generated for a spec of the sub-study class: the same spec
\* under the prefixed name, its getter under the prefixed getter name
Translated(sub, spec) ==
  [spec EXCEPT !.name = ApplyPrefix(sub, spec.name),
               !.pipeline_name = IF spec.pipeline_name = None THEN None
                                 ELSE Some(ApplyPrefix(sub, Val(spec.pipeline_name)))]

\* the registry of one kind of a class
KindRegistry(cls, kind) == IF kind = "data" THEN cls.data_specs ELSE cls.option_specs

\* the registry of one kind that the class statement made last merged from
\* its bases and its body, before the prefixed specs were generated
PriorRegistry(kind) ==
  IF kind = "data"
  THEN DictUpdate(MergeData(<<>>, Reversed(made.bases), classes), made.dct.add_data_specs)
  ELSE DictUpdate(MergeOptions(<<>>, Reversed(made.bases), classes),
                  made.dct.add_option_specs)

\* the specs of the sub-study classes that the sub-component specs of the
\* composite class made last leave to the prefix, as <<sub, spec>>
UnmappedOfMade ==
  {p \in SubsOf(made.cls) \X
         UNION {LocalSpecs(sub) : sub \in SubsOf(made.cls)} :
     p[2] \in LocalSpecs(p[1]) /\ p[2].name \notin MappedLocals(p[1])}

CompositeMade == made.op = "multi" /\ made.exc = "" /\ made.cls > 0

C18_WitnessDefaults ==
  /\ CompositeMade
  /\ {NSO, NTO} \subseteq classes[made.cls].generated
  /\ NSO \in Keys(classes[made.cls].option_specs)
  /\ NTO \in Keys(classes[made.cls].option_specs)
  /\ DictGet(classes[made.cls].option_specs, NSO).default
       # DictGet(classes[made.cls].option_specs, NTO).default

\* ------------------------------------------------------------------ C19
\* the attributes the class made last has from its bases and its body,
\* before any translated getter is set
PriorAttrs ==
  UNION {classes[made.bases[b]].attrs : b \in 1..Len(made.bases)} \cup made.dct.methods

\* the translated getters set by the class statements of the bases
GeneratedInBases ==
  UNION {classes[made.bases[b]].auto_added : b \in 1..Len(made.bases)}

\* C19: a composite class statement sets no translated getter under a name
\* that the class already has as an attribute, from its body or from one
\* of its bases (a getter generated for a base included): every such
\* attribute is still an attribute of the class and was not set anew.
C19_NeverClobbers ==
  CompositeMade =>
    /\ classes[made.cls].auto_added \cap PriorAttrs = {}
    /\ classes[made.cls].auto_added \cap GeneratedInBases = {}
    /\ PriorAttrs \subseteq classes[made.cls].attrs

\* a composite whose body defines s_p and whose sub-study class has a
\* derived spec with the getter p: the spec s_y was generated, s_p was not set
C19_Witness ==
  /\ CompositeMade
  /\ NSP \in made.dct.methods
  /\ NSY \in classes[made.cls].generated
  /\ NSP \notin classes[made.cls].auto_added

\* a composite derived from one whose getter s_p was generated
C19_WitnessBase ==
  /\ CompositeMade
  /\ NSP \in GeneratedInBases
  /\ NSP \in classes[made.cls].attrs

\* a translated getter was set where the class had no such attribute
GetterGenerated ==
  /\ CompositeMade
  /\ NSP \in classes[made.cls].auto_added

\* ------------------------------------------------------------------ C20
\* the body of the class made last declares two sub-study specs of one name
DuplicateSubs ==
  \E i \in 1..Len(made.dct.add_sub_study_specs) :
    \E j \in (i + 1)..Len(made.dct.add_sub_study_specs) :
      made.dct.add_sub_study_specs[i].name = made.dct.add_sub_study_specs[j].name

\* C20: constructing an instance of a composite class whose body declares
\* two sub-study specs of the same name raises the name error.
C20_DuplicateFatal ==
  (study.op = "new" /\ DuplicateSubs) => study.exc = NameError

\* an instance of such a class was constructed, with one sub-study under
\* the name declared twice
SilentlyReplaced ==
  /\ study.op = "new" /\ DuplicateSubs /\ study.exc = ""
  /\ Len(study.inst.sub_studies) = 1

\* the instances constructed have as many sub-studies as the registry of
\* their class has sub-study specs: each name once
OnePerRegistryName ==
  (study.op = "new" /\ study.exc = "") =>
    Len(study.inst.sub_studies) = Len(classes[study.cls].sub_study_specs)

\* ------------------------------------------------------------------ C17
\* the value an instance holds for the option n of its class: the value
\* of the Option it was given, else the default of the class's spec
Held(inst, n) ==
  IF n \in Keys(inst.options) THEN DictGet(inst.options, n).value
  ELSE Scalar(Val(DictGet(classes[inst.cls].option_specs, n).default))

\* the name of the enclosing composite for the option n of a sub-study:
\* the explicit name if the map has one, else <name>_n
TranslatedName(sub, n) ==
  IF n \in MappedLocals(sub) THEN InvMapGet(sub, n) ELSE ApplyPrefix(sub, n)

RECURSIVE Propagated(_)
\* every sub-study of inst, at any depth, holds for every option of its
\* class the value its enclosing composite holds for the translated name
Propagated(inst) ==
  \A i \in 1..Len(inst.sub_studies) :
    /\ \A n \in Keys(classes[inst.sub_studies[i].value.cls].option_specs) :
         /\ TranslatedName(DictGet(classes[inst.cls].sub_study_specs,
                                   inst.sub_studies[i].key), n)
              \in Keys(classes[inst.cls].option_specs)
         /\ Held(inst.sub_studies[i].value, n)
              = Held(inst, TranslatedName(DictGet(classes[inst.cls].sub_study_specs,
                                                  inst.sub_studies[i].key), n))
    /\ Propagated(inst.sub_studies[i].value)

\* the options given name option specs of the class constructed
SuppliedValid ==
  \A i \in 1..Len(study.options) :
    study.options[i].key \in Keys(classes[study.cls].option_specs)

\* C17: a composite constructed with values for options of its registry is
\* constructed, and every sub-study at any nesting depth holds for every
\* option n of its class the value the enclosing composite holds for the
\* translated name (the explicit name, else <name>_n): the value given to
\* the composite, else the default of the composite's registry.
C17_Propagates ==
  (study.op = "new" /\ SuppliedValid) =>
    (study.exc = "" /\ Propagated(study.inst))

\* a composite given a value for the twice prefixed name t_s_o, which its
\* registry has, was refused with the usage error
NestedRefused ==
  /\ study.op = "new" /\ study.exc = UsageError
  /\ Len(study.options) = 1 /\ study.options[1].key = NTSO
  /\ SuppliedValid

\* the composites that are constructed are those whose sub-study classes
\* have no option spec
ConstructedWithoutOptions ==
  (study.op = "new" /\ study.exc = "") =>
    \A i \in 1..Len(study.inst.sub_studies) :
      classes[study.inst.sub_studies[i].value.cls].option_specs = <<>>

\* the sub-study constructor is the only one to refuse: a call with valid
\* option names raises nothing but its usage error
OnlyUsageError ==
  (study.op = "new" /\ SuppliedValid) => study.exc \in {"", UsageError}

\* ------------------------------------------------------------------ C22
\* the formats a fileset selector accepts in a match: its own, else those
\* of the spec it is bound for
AcceptedFormats(sel, spec) ==
  IF sel.valid_formats # None THEN sel.valid_formats ELSE SpecValidFormats(spec, sel)

\* a fileset selector with a tag filter whose accepted formats are not
\* exactly one
TagsAmbiguous(sel, spec) ==
  /\ sel.cls = "FilesetFilter" /\ sel.dicom_tags # None
  /\ \/ AcceptedFormats(sel, spec) = None
     \/ Len(Val(AcceptedFormats(sel, spec))) # 1

\* C22: matching a fileset selector that has a tag filter and not exactly
\* one accepted format ends with the usage error, whatever the tree holds.
C22_TagsRejected ==
  (BindReturned /\ ret.matched /\ TagsAmbiguous(heap[ret.self], specs[ret.analysis]))
    => ret.exc = UsageError

\* where the tag filter of such a selector is reached at a node, the usage
\* error leaves the match as it is: it is not collected with the errors of
\* the nodes
TagsRejectedWhereReached ==
  (BindReturned /\ ret.matched)
    => \A i \in 1..Len(ret.match.log) :
         ret.match.log[i].filtered.exc = UsageError
           => ret.exc = UsageError /\ i = Len(ret.match.log)

\* such a selector was matched against a tree with nodes and the match
\* ended with the missing-match error
TagsMissingMatch ==
  /\ BindReturned /\ ret.matched /\ TagsAmbiguous(heap[ret.self], specs[ret.analysis])
  /\ Len(ret.match.log) > 0 /\ ret.exc = MissingMatchError

\* such a selector was matched and the match returned a slice
TagsAccepted ==
  /\ BindReturned /\ ret.matched /\ TagsAmbiguous(heap[ret.self], specs[ret.analysis])
  /\ ret.exc = ""

\* ------------------------------------------------------------------ C25
\* the node of a log entry is ambiguous: no order and several candidates
Ambiguous(e, sel) ==
  /\ e.filtered.exc = "" /\ sel.order = None
  /\ Len(Candidates(e, sel)) > 1

\* C25: at a node where several candidates survive and the selector has
\* no order, the general input error is recorded for the node, whatever
\* the missing-data policy (no placeholder, no fallback item), and the
\* match ends with the general input error.
C25_AmbiguousFatal ==
  (BindReturned /\ ret.matched)
    => \A i \in 1..Len(ret.match.log) :
         Ambiguous(ret.match.log[i], heap[1])
           => /\ ret.match.log[i].out.kind = "error"
              /\ ret.match.log[i].out.exc = InputError
              /\ ret.exc = InputError

\* the part of C25 about the node: the general input error is recorded
\* for it and no item stands for it
AmbiguousRecorded ==
  (BindReturned /\ ret.matched)
    => \A i \in 1..Len(ret.match.log) :
         Ambiguous(ret.match.log[i], heap[1])
           => /\ ret.match.log[i].out.kind = "error"
              /\ ret.match.log[i].out.exc = InputError
              /\ \E j \in 1..Len(ret.match.errors) :
                   /\ ret.match.errors[j].exc = InputError
                   /\ ret.match.errors[j].subject_id = ret.match.log[i].subject_id
                   /\ ret.match.errors[j].visit_id = ret.match.log[i].visit_id

\* the match ends with the general input error unless an exception that
\* is no input error left the loop at a later node
AmbiguousFatalOrLeft ==
  (BindReturned /\ ret.matched)
    => \A i \in 1..Len(ret.match.log) :
         Ambiguous(ret.match.log[i], heap[1])
           => \/ ret.exc = InputError
              \/ /\ ret.exc \in {AttributeError, UsageError}
                 /\ ret.match.log[Len(ret.match.log)].out.kind = "abort"

\* an ambiguous node beside a node with a missing match, under
\* skip_missing or with a fallback: the match ended with the general
\* input error
AmbiguousWithPolicy ==
  /\ BindReturned /\ ret.matched /\ ret.exc = InputError
  /\ heap[1].skip_missing \/ heap[1].fallback_to_default
  /\ \E i \in 1..Len(ret.match.log) : Ambiguous(ret.match.log[i], heap[1])
  /\ \E i \in 1..Len(ret.match.log) : ret.match.log[i].exc = MissingMatchError

\* ------------------------------------------------------------------ C28
\* the items held by one node
ItemsAt(node) ==
  {node.filesets[i] : i \in 1..Len(node.filesets)}
  \cup {node.fields[i] : i \in 1..Len(node.fields)}

\* the items held by the nodes of a tree
TreeItems(tree) ==
  {tree.filesets[i] : i \in 1..Len(tree.filesets)}
  \cup {tree.fields[i] : i \in 1..Len(tree.fields)}
  \cup UNION {ItemsAt(tree.visits[v]) : v \in 1..Len(tree.visits)}
  \cup UNION {ItemsAt(tree.subjects[s].node) : s \in 1..Len(tree.subjects)}
  \cup UNION {UNION {ItemsAt(tree.subjects[s].sessions[v]) :
                       v \in 1..Len(tree.subjects[s].sessions)} :
                s \in 1..Len(tree.subjects)}

\* C28: no step changes a tree (its subjects, visits and sessions and the
\* filesets and fields of every node are what they were), whether the bind
\* returns or raises and whatever the policy, and no node ever holds a
\* placeholder or a fallback item.
C28_TreeReadOnly ==
  [][/\ trees' = trees
     /\ \A d \in Datasets : \A item \in TreeItems(trees'[d]) : item.src = "tree"]_vars

\* a bind returned a slice with a placeholder or a fallback item in it,
\* and the tree matched holds none
C28_Witness ==
  /\ BindReturned /\ ret.exc = "" /\ ret.matched
  /\ \E i \in 1..Len(ret.match.items) : ret.match.items[i].src # "tree"
  /\ \A item \in TreeItems(trees[MatchDataset(heap[ret.self], ret.analysis)]) :
       item.src = "tree"

\* a bind that raised after nodes were matched
C28_WitnessRaised ==
  /\ BindReturned /\ ret.exc # "" /\ ret.matched /\ Len(ret.match.log) > 0

\* ------------------------------------------------------------------ C27
\* the positions of the events of one kind in the trace of the last bind
At(ev) == {i \in 1..Len(ret.trace) : ret.trace[i].ev = ev}

\* C27: in the trace of a bind that returned or raised, every match
\* against a tree lies between the entering and the leaving of the scope
\* of the repository of the dataset matched, the scope is entered at most
\* once and left exactly as often as it was entered, and a bind that
\* matched did enter it.
C27_Scoped ==
  BindReturned =>
    /\ Cardinality(At("enter")) <= 1
    /\ Cardinality(At("exit")) = Cardinality(At("enter"))
    /\ ret.matched => At("match") # {}
    /\ \A m \in At("match") :
         /\ \E e \in At("enter") : e < m /\ ret.trace[e].ds = ret.trace[m].ds
         /\ \E x \in At("exit") : m < x /\ ret.trace[x].ds = ret.trace[m].ds
         /\ ret.trace[m].ds = MatchDataset(heap[ret.self], ret.analysis)

\* a bind that raised from the match: the missing-match error, the general
\* input error, or another exception
C27_Witness ==
  /\ BindReturned /\ ret.matched /\ ret.exc = MissingMatchError
  /\ At("exit") # {}

C27_WitnessAmbiguous ==
  /\ BindReturned /\ ret.matched /\ ret.exc = InputError
  /\ At("exit") # {}

\* a bind that raised the usage error before the scope was entered
C27_WitnessUsage ==
  /\ BindReturned /\ ~ret.matched /\ ret.exc = UsageError
  /\ ret.trace = <<>>

\* ------------------------------------------------------------------ C29
\* C29: in every composite class there is, with the prefixed specs
\* generated, no name is both a data spec name and an option spec name.
C29_Disjoint ==
  \A c \in Composites : Clashes(c) = {}

\* a clash in a composite class is between a generated spec and a spec of
\* the other kind: the base metaclass lets none through
ClashGenerated ==
  \A c \in Composites : Clashes(c) \subseteq classes[c].generated

\* ------------------------------------------------------------------ C30
\* the (sub-component spec, spec name) pairs of the composite class made
\* last, and those of them left to the prefix
PairsOfMade ==
  {p \in SubsOf(made.cls) \X
         UNION {SpecNames(classes[sub.study_class]) : sub \in SubsOf(made.cls)} :
     p[2] \in SpecNames(classes[p[1].study_class])}

PrefixedOfMade == {p \in PairsOfMade : p[2] \notin MappedLocals(p[1])}

\* C30: in a composite class, two pairs of different sub-components that
\* are both left to the prefix never translate to the same name, and a
\* pair left to the prefix never translates to the name that a pair of a
\* different sub-component has through its explicit map.
C30_Injective ==
  CompositeMade =>
    \A p \in PrefixedOfMade : \A q \in PairsOfMade :
      p[1].name # q[1].name
        => ApplyPrefix(p[1], p[2]) # TranslatedName(q[1], q[2])

\* the part of C30 about two prefixed pairs
PrefixedInjective ==
  CompositeMade =>
    \A p \in PrefixedOfMade : \A q \in PrefixedOfMade :
      p[1].name # q[1].name => ApplyPrefix(p[1], p[2]) # ApplyPrefix(q[1], q[2])

\* the part of C30 about a prefixed pair and an explicitly mapped pair
PrefixedApartFromMapped ==
  CompositeMade =>
    \A p \in PrefixedOfMade : \A q \in PairsOfMade \ PrefixedOfMade :
      p[1].name # q[1].name => ApplyPrefix(p[1], p[2]) # InvMapGet(q[1], q[2])

\* ------------------------------------------------------------------ C21
\* the names of the inputs the caller gave
GivenNames == {study.inputs[i].name : i \in 1..Len(study.inputs)}

\* some acquired, non-optional data spec of the class has no input given
\* under its name
RequiredMissing ==
  \E i \in 1..Len(classes[study.cls].data_specs) :
    /\ classes[study.cls].data_specs[i].value.pipeline_name = None
    /\ ~classes[study.cls].data_specs[i].value.optional
    /\ classes[study.cls].data_specs[i].key \notin GivenNames

\* the loop over the options or the loop over the inputs, which come
\* first in the constructor, has raised
EarlierRaised ==
  \/ OptionsCheck(classes[study.cls], study.options) # ""
  \/ \E i \in 1..Len(study.inputs) :
       \/ study.inputs[i].name \notin Keys(classes[study.cls].data_specs)
       \/ study.inputs[i].bind_exc # ""

\* C21 as stated: a construction with enforce_inputs set raises the
\* missing-input error exactly when an acquired, non-optional data spec of
\* the class has no input under its name, a construction with
\* enforce_inputs unset never raises it, and no pipeline is built or run by
\* a construction.
C21_MissingIffRequired ==
  study.op = "new" =>
    /\ study.enforce_inputs => (study.exc = MissingInputError <=> RequiredMissing)
    /\ ~study.enforce_inputs => study.exc # MissingInputError
    /\ study.events = <<>>

\* C21 amended: with enforce_inputs set the missing-input error is raised
\* exactly when a required input is missing and neither the options nor the
\* inputs given, which are checked first, have raised; with enforce_inputs
\* unset it is never raised; no pipeline is built or run by a construction.
C21_MissingUnlessEarlier ==
  study.op = "new" =>
    /\ study.enforce_inputs =>
         (study.exc = MissingInputError <=> (RequiredMissing /\ ~EarlierRaised))
    /\ ~study.enforce_inputs => study.exc # MissingInputError
    /\ study.events = <<>>

\* a construction with enforce_inputs set, one input given and another
\* missing, raised the missing-input error
C21_Witness ==
  /\ study.op = "new" /\ study.enforce_inputs /\ study.exc = MissingInputError
  /\ study.inputs # <<>> /\ classes[study.cls].is_multi

\* a composite was constructed with enforce_inputs unset and a required
\* input missing, and so were its sub-studies
C21_WitnessUnset ==
  /\ study.op = "new" /\ ~study.enforce_inputs /\ RequiredMissing
  /\ study.exc = "" /\ study.calls # <<>>

\* an optional acquired spec without input is not fatal
C21_WitnessOptional ==
  /\ study.op = "new" /\ study.enforce_inputs /\ study.exc = ""
  /\ NZ \in Keys(classes[study.cls].data_specs) /\ NZ \notin GivenNames

\* the sub-study constructors never raise the missing-input error: a
\* construction with all the composite's own required inputs never raises it
SubStudiesNeverEnforce ==
  (study.op = "new" /\ ~RequiredMissing) => study.exc # MissingInputError

\* ------------------------------------------------------------------ C26
\* a composite is being constructed and its own Study.__init__ has returned
CompositeInitDone ==
  /\ study.op = "new" /\ classes[study.cls].is_multi
  /\ StudyInitData(study.cls, <<"n">>, ListArg(study.inputs), study.options,
                   study.enforce_inputs, classes).exc = ""

\* the (sub-study spec, data spec name of its class) pairs of the composite
DataPairs ==
  {p \in SubsOf(study.cls) \X {NX, NY, NZ} :
     p[2] \in Keys(classes[p[1].study_class].data_specs)}

\* the input the caller gave under a name, bound to the composite
GivenInput(name) ==
  BoundTo(study.inputs[CHOOSE i \in 1..Len(study.inputs) : study.inputs[i].name = name],
          <<"n">>)

\* the composite has a derived data spec of that name
DerivedInComposite(name) ==
  /\ name \in Keys(classes[study.cls].data_specs)
  /\ DictGet(classes[study.cls].data_specs, name).pipeline_name # None

\* the calls of the constructor of the sub-study of that name
CallsOf(sub) == {i \in 1..Len(study.calls) : study.calls[i].sub = sub.name}

\* what the claim says the sub-study is given for the data spec d: the
\* bound input of the composite, else its derived spec, else nothing
Expected(sub, d) ==
  IF TranslatedName(sub, d) \in GivenNames THEN <<GivenInput(TranslatedName(sub, d))>>
  ELSE IF DerivedInComposite(TranslatedName(sub, d))
  THEN <<BoundSpec(DictGet(classes[study.cls].data_specs, TranslatedName(sub, d)), <<"n">>)>>
  ELSE <<>>

\* what a call was given for the data spec d
Received(call, d) ==
  IF d \in Keys(call.inputs) THEN <<DictGet(call.inputs, d)>> ELSE <<>>

\* C26: when a composite is constructed each sub-study is given, for each
\* of its data specs d, the composite's bound input under the translated
\* name if there is one, else the composite's derived spec of that name if
\* there is one, and else nothing, in which case the construction succeeds.
C26_MappedInputs ==
  CompositeInitDone =>
    \A p \in DataPairs :
      /\ CallsOf(p[1]) # {}
      /\ \A i \in CallsOf(p[1]) : Received(study.calls[i], p[2]) = Expected(p[1], p[2])
      /\ Expected(p[1], p[2]) = <<>> => study.exc = ""

\* the part of C26 about the calls that are made: each is given what the
\* claim says
CallsAsStated ==
  CompositeInitDone =>
    \A p \in DataPairs :
      \A i \in CallsOf(p[1]) : Received(study.calls[i], p[2]) = Expected(p[1], p[2])

\* a sub-study that is given nothing and has no option specs is constructed
EmptyHandedConstructed ==
  (/\ CompositeInitDone
   /\ \A p \in DataPairs :
        /\ Expected(p[1], p[2]) = <<>>
        /\ TranslatedName(p[1], p[2]) \in Keys(classes[study.cls].data_specs)
        /\ classes[p[1].study_class].option_specs = <<>>)
    => study.exc = ""

\* the construction of a composite whose own Study.__init__ has returned
\* fails with the attribute error of the loop over a dict of inputs, the
\* usage error of the option handed down, or the name error of a data spec
\* mapped to an option spec
CompositeFailures ==
  (CompositeInitDone /\ study.exc # "") =>
    \/ /\ study.exc = AttributeError
       /\ \E i \in 1..Len(study.calls) : study.calls[i].inputs # <<>>
    \/ /\ study.exc = UsageError
       /\ \E i \in 1..Len(study.calls) :
            classes[study.calls[i].cls].option_specs # <<>>
    \/ /\ study.exc = NameError
       /\ \E p \in DataPairs :
            TranslatedName(p[1], p[2]) \notin Keys(classes[study.cls].data_specs)

\* ------------------------------------------------------------------ C23
\* the instance has an input under the name asked for
Direct == study.name \in Keys(study.inst.inputs)

\* the name asked for is a derived, or an acquired, data spec of the class
AskedDerived ==
  /\ study.name \in Keys(classes[study.cls].data_specs)
  /\ DictGet(classes[study.cls].data_specs, study.name).pipeline_name # None

AskedAcquired ==
  /\ study.name \in Keys(classes[study.cls].data_specs)
  /\ DictGet(classes[study.cls].data_specs, study.name).pipeline_name = None

\* no pipeline was constructed or run by the call
NoPipeline == study.events = <<>>

\* the rest of the state machine: the pipeline is constructed, and run if
\* constructed, exactly when there is no input and the spec is derived; an
\* acquired spec without input ends in the missing-data error
PipelinePath ==
  /\ (~Direct /\ AskedDerived) =>
       study.events = (IF study.build = "" THEN <<"pipeline", "run">> ELSE <<"pipeline">>)
  /\ ~NoPipeline => (~Direct /\ AskedDerived)
  /\ (~Direct /\ AskedAcquired) => (study.data_exc = MissingDataException /\ NoPipeline)

\* C23 as stated: data(name) returns the matched items of the input under
\* that name without a pipeline, also for a derived spec; the pipeline is
\* run only when there is no input and the spec is derived; an acquired
\* spec without input gives the missing-data error and no pipeline.
C23_Resolution ==
  study.op = "data" =>
    /\ Direct => (/\ NoPipeline /\ study.data_exc = ""
                  /\ study.out = DictGet(study.inst.inputs, study.name).matches)
    /\ PipelinePath

\* C23 amended: with an input under the name no pipeline is constructed or
\* run, and data(name) returns the matched items if there are any and raises
\* the usage error if there are none; the rest as stated.
C23_ResolutionNonEmpty ==
  study.op = "data" =>
    /\ Direct =>
         /\ NoPipeline
         /\ IF DictGet(study.inst.inputs, study.name).matches = <<>>
            THEN study.data_exc = UsageError /\ study.out = <<>>
            ELSE /\ study.data_exc = ""
                 /\ study.out = DictGet(study.inst.inputs, study.name).matches
    /\ PipelinePath

\* the matched items of an input given for a derived spec were returned
C23_Witness ==
  /\ study.op = "data" /\ Direct /\ AskedDerived
  /\ study.out = <<"m2">> /\ study.build # "" /\ study.run # ""

\* the pipeline of a derived spec without input was run
C23_WitnessPipeline ==
  /\ study.op = "data" /\ ~Direct /\ AskedDerived
  /\ study.events = <<"pipeline", "run">> /\ study.data_exc = ""
  /\ classes[study.cls].is_multi

\* an acquired spec without input ended in the missing-data error
C23_WitnessMissing ==
  /\ study.op = "data" /\ ~Direct /\ AskedAcquired
  /\ study.data_exc = MissingDataException

\* an input without matched items ended in the usage error
C23_WitnessEmpty ==
  /\ study.op = "data" /\ Direct /\ study.data_exc = UsageError

\* ------------------------------------------------------------------ C24
\* how many times the call has asked for that step
Times(ev) == Cardinality({i \in 1..Len(study.events) : study.events[i] = ev})

\* the runner was invoked by the call
RunnerInvoked == Times("run") = 1

\* C24: one call of data(name) constructs the pipeline and invokes the
\* runner at most once; when the runner signals that no run is required the
\* call returns the data of the spec in the tree; when the construction of
\* the pipeline or the run fails in any other way the call raises that
\* failure, the runner is not invoked again and nothing is returned.
C24_RunOnce ==
  study.op = "data" =>
    /\ Times("run") <= 1 /\ Times("pipeline") <= 1
    /\ (RunnerInvoked /\ study.run = NoRunRequired) =>
         (study.data_exc = "" /\ study.out = study.existing)
    /\ (RunnerInvoked /\ study.run \notin {"", NoRunRequired}) =>
         (study.data_exc = study.run /\ study.out = <<>>)
    /\ (Times("pipeline") = 1 /\ study.build # "") =>
         (study.data_exc = study.build /\ study.out = <<>> /\ ~RunnerInvoked)

\* the runner signalled that no run is required and the data in the tree
\* was returned
C24_Witness ==
  /\ study.op = "data" /\ RunnerInvoked /\ study.run = NoRunRequired
  /\ study.out = <<"d1">>

\* the run failed and its failure was raised
C24_WitnessRun ==
  /\ study.op = "data" /\ RunnerInvoked /\ study.data_exc = RuntimeError

\* the construction of the pipeline failed and its failure was raised
C24_WitnessBuild ==
  /\ study.op = "data" /\ ~RunnerInvoked /\ study.build = RuntimeError
  /\ study.data_exc = RuntimeError /\ classes[study.cls].is_multi

====
